---- MODULE Spec2Model ----
(***************************************************************************)
(* Verification model of the MMTUK CMS publishing core:                    *)
(*   chat/services/git_service.py   (RepoSync / CommitBatcher)             *)
(*   chat/services/content_service.py, content_reader_service.py           *)
(*   content_schema/schemas.py      (ContentSchema)                        *)
(*   accounts/models.py             (CapabilityPolicy)                     *)
(*   chat/views.py                  (ActionDispatcher, approval workflow)  *)
(*                                                                         *)
(* settings.DEBUG is False throughout (the deployed configuration); the    *)
(* DEBUG branches only write to output/ and never touch the clone.         *)
(*                                                                         *)
(* Git is modelled at file granularity.  A commit is a record              *)
(*   [id, gen, set, del]: id is the identity of the change, gen counts how *)
(* often it was rewritten by a rebase (id and gen together stand for the   *)
(* sha), set maps the paths it writes to their content and del is the set  *)
(* of paths it removes.  A history is a sequence of commits, oldest first. *)
(***************************************************************************)
EXTENDS Integers, Sequences, FiniteSets, TLC

VARIABLES
    remote,     \* history of the branch on the remote (GitHub)
    mirror,     \* the clone in settings.REPO_CLONE_DIR
    git_lock,   \* holder of git_service._git_lock, or NoReq
    pc,         \* per request: position in the code
    loc,        \* per request: local variables of the running call
    nextId,     \* next fresh commit id
    returned,   \* ids of the commits commit_locally has returned
    pushlog,    \* history of completed push_to_remote calls and commits
    drafts,     \* ContentDraft rows, in order of creation
    audit,      \* ContentAuditLog rows, in order of creation
    cache,      \* django.core.cache: key -> cached value
    last        \* the handler call served last: [op, result, threw]

vars == <<remote, mirror, git_lock, pc, loc, nextId, returned, pushlog,
          drafts, audit, cache, last>>

\* the database, the cache and the handler log; the git layer leaves them alone
cmsVars == <<drafts, audit, cache, last>>

(***************************************************************************)
(* Bounds                                                                  *)
(***************************************************************************)
MaxCommits == 2        \* commits created locally by commit_locally
MaxRemoteUpdates == 1  \* commits other clients add to the remote
MaxRequests == 3       \* requests served in one behaviour

Req == {"r1", "r2"}    \* concurrently served requests
NoReq == "none"

(***************************************************************************)
(* Files                                                                   *)
(***************************************************************************)
\* content_service.get_file_path: directory of the type + "{slug}.md"
ArticleDir == "src/content/articles/"
GitPaths == {[dir |-> ArticleDir, stem |-> "a"], [dir |-> ArticleDir, stem |-> "b"]}
GitDocs == {"v2"}       \* content a request writes
RemoteDocs == {"v3"}    \* content another client of the repository writes

EmptyTree == [p \in {} |-> "v1"]

\* tree after applying one commit to tree t
ApplyCommit(t, c) ==
    [p \in (DOMAIN t \ c.del) \cup DOMAIN c.set |->
        IF p \in DOMAIN c.set THEN c.set[p] ELSE t[p]]

RECURSIVE TreeUpTo(_, _)
TreeUpTo(h, n) == IF n = 0 THEN EmptyTree ELSE ApplyCommit(TreeUpTo(h, n - 1), h[n])

\* tree of the tip of history h
Tree(h) == TreeUpTo(h, Len(h))

Touched(c) == DOMAIN c.set \cup c.del

\* the change that turns tree t into tree u
DiffSet(t, u) == [p \in {q \in DOMAIN u : q \notin DOMAIN t \/ t[q] # u[q]} |-> u[p]]
DiffDel(t, u) == DOMAIN t \ DOMAIN u

Ids(h) == {h[i].id : i \in 1..Len(h)}
Shas(h) == {<<h[i].id, h[i].gen>> : i \in 1..Len(h)}

Min(a, b) == IF a < b THEN a ELSE b

\* length of the longest common prefix of two histories (the merge base)
MergeBase(h1, h2) ==
    LET n == Min(Len(h1), Len(h2))
        Same(k) == \A i \in 1..k : h1[i] = h2[i]
    IN  CHOOSE k \in 0..n : Same(k) /\ \A j \in (k+1)..n : ~Same(j)

\* repo.iter_commits('origin/branch..branch'): commits of branch not on origin/branch
AheadOf(m) == SubSeq(m.branch, MergeBase(m.branch, m.origin) + 1, Len(m.branch))
\* commits of origin/branch not on branch
Upstream(m) == SubSeq(m.origin, MergeBase(m.branch, m.origin) + 1, Len(m.origin))

(***************************************************************************)
(* Working tree and index                                                  *)
(***************************************************************************)
NoMirror == [exists |-> FALSE, branch |-> <<>>, origin |-> <<>>,
             wt |-> EmptyTree, idx |-> EmptyTree, rebasing |-> FALSE]

\* files of the working tree git does not track
Untracked(m) == {p \in DOMAIN m.wt : p \notin DOMAIN m.idx}

\* tracked files with unstaged changes, or an index that differs from HEAD
Dirty(m) ==
    \/ \E p \in DOMAIN m.idx : p \notin DOMAIN m.wt \/ m.wt[p] # m.idx[p]
    \/ m.idx # Tree(m.branch)

\* working tree after git checked out tree t: untracked files stay
Checkout(m, t) ==
    [p \in DOMAIN t \cup Untracked(m) |-> IF p \in DOMAIN t THEN t[p] ELSE m.wt[p]]

\* git clone --branch
Clone(rem) ==
    [exists |-> TRUE, branch |-> rem, origin |-> rem,
     wt |-> Tree(rem), idx |-> Tree(rem), rebasing |-> FALSE]

\* origin.fetch(): the remote-tracking ref follows the remote
Fetch(m, rem) == [m EXCEPT !.origin = rem]

\* git reset --hard origin/branch
ResetHard(m) ==
    [m EXCEPT !.branch = m.origin, !.idx = Tree(m.origin),
              !.wt = Checkout(m, Tree(m.origin)), !.rebasing = FALSE]

\* a failed transfer followed by the reset of lines 102-104
FailedFetchReset(m) == ResetHard(m)

\* clone_from or origin.fetch() raising: the exception leaves ensure_repo
\* before any ref or file of the clone is touched
FailedFetch(m) == m

\* two sequences of commits change a common file
Conflict(ours, theirs) ==
    \E i \in 1..Len(ours), j \in 1..Len(theirs) :
        Touched(ours[i]) \cap Touched(theirs[j]) # {}

\* git refuses to start a rebase on a dirty tree or over untracked files
RebaseRefused(m) ==
    \/ m.rebasing
    \/ Dirty(m)
    \/ Untracked(m) \cap DOMAIN Tree(m.origin) # {}

Rewritten(h) == [i \in 1..Len(h) |-> [h[i] EXCEPT !.gen = @ + 1]]

\* git rebase origin/branch, when it succeeds
RebaseOnto(m) ==
    LET up == Upstream(m)
        nb == IF up = <<>> THEN m.branch ELSE m.origin \o Rewritten(AheadOf(m))
    IN  [m EXCEPT !.branch = nb, !.idx = Tree(nb), !.wt = Checkout(m, Tree(nb))]

\* a rebase that stops on a conflict: HEAD detached, index unmerged,
\* the branch ref still at the original commits
RebaseStopped(m) == [m EXCEPT !.rebasing = TRUE]

(***************************************************************************)
(* git_service: file operations                                            *)
(***************************************************************************)
\* a write that leaves the file as it was
WriteDropped(m, p, content) == m

\* write_file_to_repo(relative_path, content_bytes)
write_file_to_repo(m, p, content) ==
    [m EXCEPT !.wt = [q \in DOMAIN m.wt \cup {p} |-> IF q = p THEN content ELSE m.wt[q]]]

\* read_file_from_repo(relative_path): the content, or None
None == "None"
FileExists(m, p) == p \in DOMAIN m.wt

\* delete_file_from_repo(relative_path): the tree after full_path.unlink()
delete_file_from_repo(m, p) ==
    [m EXCEPT !.wt = [q \in DOMAIN m.wt \ {p} |-> m.wt[q]]]

(***************************************************************************)
(* git_service.ensure_repo, in the three steps other requests can          *)
(* interleave with: fetch, inspect, rebase-or-reset                        *)
(***************************************************************************)
\* an ensure_repo that leaves a branch that is not ahead where it is
EnsureSyncKeepsBranch(m, ahead) ==
    IF ahead
    THEN IF RebaseRefused(m) \/ Conflict(AheadOf(m), Upstream(m))
         THEN ResetHard(m)
         ELSE RebaseOnto(m)
    ELSE m

\* lines 85-104 once 'ahead' is known
EnsureSync(m, ahead) ==
    IF ahead
    THEN IF RebaseRefused(m) \/ Conflict(AheadOf(m), Upstream(m))
         THEN ResetHard(m)      \* rebase raised; rebase --abort; reset --hard
         ELSE RebaseOnto(m)
    ELSE ResetHard(m)

\* repo.git.checkout(branch) fails while a stopped rebase holds the index
CheckoutFails(m) == m.rebasing

\* the whole of ensure_repo when nothing interleaves; ok = transport works
ensure_repo(m, rem, ok) ==
    IF ~ok THEN [raised |-> TRUE, m |-> FailedFetch(m)]
    ELSE IF ~m.exists THEN [raised |-> FALSE, m |-> Clone(rem)]
    ELSE LET f == Fetch(m, rem)
         IN  IF CheckoutFails(f) THEN [raised |-> TRUE, m |-> f]
             ELSE [raised |-> FALSE, m |-> EnsureSync(f, AheadOf(f) # <<>>)]

(***************************************************************************)
(* git_service.commit_locally                                              *)
(***************************************************************************)
\* lines 214-223: stage every listed file, or its removal
Stage(m, files) ==
    [m EXCEPT !.idx =
        [p \in (DOMAIN m.idx \ {q \in files : q \notin DOMAIN m.wt})
               \cup {q \in files : q \in DOMAIN m.wt} |->
            IF p \in files THEN m.wt[p] ELSE m.idx[p]]]

\* repo.index.commit raises on a missing clone or an unmerged index
CommitFails(m) == ~m.exists \/ m.rebasing

\* line 227: the commit made from the index on top of HEAD
NewCommit(m, id) ==
    [id |-> id, gen |-> 0,
     set |-> DiffSet(Tree(m.branch), m.idx),
     del |-> DiffDel(Tree(m.branch), m.idx)]

Commit(m, id) == [m EXCEPT !.branch = Append(m.branch, NewCommit(m, id))]

\* the whole call when nothing interleaves
commit_locally(m, files, id) ==
    IF ~m.exists THEN [raised |-> TRUE, m |-> m, sha |-> <<0, 0>>]
    ELSE IF CommitFails(m) THEN [raised |-> TRUE, m |-> Stage(m, files), sha |-> <<0, 0>>]
    ELSE [raised |-> FALSE, m |-> Commit(Stage(m, files), id), sha |-> <<id, 0>>]

(***************************************************************************)
(* git_service.push_to_remote                                              *)
(***************************************************************************)
\* What origin.push() can do.  A push that fails as a whole (transport,
\* detached HEAD) raises GitCommandError.  A head the remote rejects as a
\* non-fast-forward is reported by GitPython in the flags of the returned
\* PushInfo, which push_to_remote never inspects ("flagged"); "raised" is
\* kept as a possible outcome of a rejection as well.
PushOutcomes(m, rem, net) ==
    IF ~net \/ m.rebasing THEN {"raised"}
    ELSE IF MergeBase(rem, m.branch) = Len(rem) THEN {"pushed"}
    ELSE {"flagged", "raised"}

\* the clone after a push that the remote accepted
Pushed(m) == [m EXCEPT !.origin = m.branch]

\* repo.git.pull('--rebase'): the outcomes and the clone they leave
PullRaises(m, rem, net) ==
    \/ m.rebasing \/ Dirty(m) \/ ~net
    \/ Untracked(m) \cap DOMAIN Tree(rem) # {}
    \/ Conflict(AheadOf(Fetch(m, rem)), Upstream(Fetch(m, rem)))

PullRebase(m, rem, net) ==
    IF m.rebasing \/ Dirty(m) \/ ~net THEN m
    ELSE IF Untracked(m) \cap DOMAIN Tree(rem) # {} THEN Fetch(m, rem)
    ELSE IF Conflict(AheadOf(Fetch(m, rem)), Upstream(Fetch(m, rem)))
         THEN RebaseStopped(Fetch(m, rem))
         ELSE RebaseOnto(Fetch(m, rem))

(***************************************************************************)
(* Values.  A frontmatter is a Python dict: a function from key names to   *)
(* values.  A value carries its Python type, because _yaml_value and       *)
(* yaml.safe_load treat the types differently: t is "str", "num", "bool",  *)
(* "date" (a datetime.date made by the YAML parser) or "none", v the text. *)
(***************************************************************************)
Str(s) == [t |-> "str", v |-> s]
Num(s) == [t |-> "num", v |-> s]
Bool(s) == [t |-> "bool", v |-> s]
Date(s) == [t |-> "date", v |-> s]
NoneValue == [t |-> "none", v |-> ""]

EmptyDict == [k \in {} |-> NoneValue]

\* d.get(k, default)
Get(d, k, default) == IF k \in DOMAIN d THEN d[k] ELSE default

\* dict(d); d.update(e)
Update(d, e) == [k \in DOMAIN d \cup DOMAIN e |-> IF k \in DOMAIN e THEN e[k] ELSE d[k]]

\* Python truth value of a value
Truthy(x) ==
    CASE x.t = "none" -> FALSE
      [] x.t = "str" -> x.v # ""
      [] x.t = "bool" -> x.v = "true"
      [] x.t = "num" -> x.v # "0"
      [] OTHER -> TRUE

(***************************************************************************)
(* content_schema/schemas.py: CONTENT_TYPES                                *)
(***************************************************************************)
ContentTypes == {"article", "briefing", "news", "local_event", "local_news", "bio", "ecosystem"}

LocalGroups == {"brighton", "london", "oxford", "pennines", "scotland", "solent"}

\* schema['directory']
Directory(ct) ==
    CASE ct = "article" -> ArticleDir
      [] ct = "briefing" -> "src/content/briefings/"
      [] ct = "news" -> "src/content/news/"
      [] ct = "local_event" -> "src/content/localEvents/"
      [] ct = "local_news" -> "src/content/localNews/"
      [] ct = "bio" -> "src/content/bios/"
      [] ct = "ecosystem" -> "src/content/ecosystem/"

\* schema['required_fields']
RequiredFields(ct) ==
    CASE ct = "article" -> {"title", "slug", "category", "author", "pubDate"}
      [] ct = "briefing" -> {"title", "slug", "author", "pubDate"}
      [] ct = "news" -> {"title", "slug", "date", "category"}
      [] ct = "local_event" ->
            {"title", "slug", "localGroup", "date", "tag", "location", "description"}
      [] ct = "local_news" -> {"heading", "slug", "text", "localGroup", "date"}
      [] ct = "bio" -> {"name", "slug", "role"}
      [] ct = "ecosystem" -> {"name", "slug"}

\* schema['fields'], in the order of the dict
Fields(ct) ==
    CASE ct = "article" ->
            <<"title", "slug", "category", "layout", "sector", "author", "authorTitle",
              "pubDate", "readTime", "summary", "thumbnail", "mainImage", "featured", "color">>
      [] ct = "briefing" ->
            <<"title", "slug", "author", "authorTitle", "pubDate", "readTime", "summary",
              "thumbnail", "mainImage", "featured", "draft", "sourceUrl", "sourceTitle",
              "sourceAuthor", "sourcePublication", "sourceDate">>
      [] ct = "news" ->
            <<"title", "slug", "date", "category", "summary", "thumbnail", "mainImage">>
      [] ct = "local_event" ->
            <<"title", "slug", "localGroup", "date", "tag", "location", "description",
              "link", "image">>
      [] ct = "local_news" ->
            <<"heading", "slug", "text", "localGroup", "date", "link", "image">>
      [] ct = "bio" ->
            <<"name", "slug", "role", "photo", "linkedin", "twitter", "website",
              "advisoryBoard">>
      [] ct = "ecosystem" ->
            <<"name", "slug", "country", "types", "summary", "logo", "website", "twitter",
              "facebook", "youtube", "discord", "status">>

FieldNames(ct) == {Fields(ct)[i] : i \in 1..Len(Fields(ct))}

\* the fields of type 'date' or 'datetime'
DateFields(ct) ==
    CASE ct \in {"article", "briefing"} -> {"pubDate", "sourceDate"} \cap FieldNames(ct)
      [] ct \in {"news", "local_event", "local_news"} -> {"date"}
      [] OTHER -> {}

\* the fields of type 'enum' with their options
EnumOptions(ct) ==
    CASE ct = "article" ->
            [f \in {"category", "layout"} |->
                IF f = "category"
                THEN {"Article", "Commentary", "Research", "Core Ideas", "Core Insights",
                      "But what about...?"}
                ELSE {"default", "simplified", "rebuttal"}]
      [] ct = "news" ->
            [f \in {"category"} |-> {"Announcement", "Event", "Press Release", "Update"}]
      [] ct \in {"local_event", "local_news"} -> [f \in {"localGroup"} |-> LocalGroups]
      [] ct = "ecosystem" -> [f \in {"status"} |-> {"Active", "Inactive", "Archived"}]
      [] OTHER -> [f \in {} |-> {}]

\* the fields that have a 'default'
Defaults(ct) ==
    CASE ct = "article" ->
            [f \in {"layout", "sector", "author", "readTime", "featured"} |->
                CASE f = "layout" -> Str("default")
                  [] f = "sector" -> Str("Economics")
                  [] f = "author" -> Str("MMTUK")
                  [] f = "readTime" -> Num("5")
                  [] f = "featured" -> Bool("false")]
      [] ct = "briefing" ->
            [f \in {"readTime", "featured", "draft"} |->
                IF f = "readTime" THEN Num("5") ELSE Bool("false")]
      [] ct = "bio" -> [f \in {"advisoryBoard"} |-> Bool("false")]
      [] ct = "ecosystem" ->
            [f \in {"country", "status"} |-> IF f = "country" THEN Str("UK") ELSE Str("Active")]
      [] OTHER -> EmptyDict

\* format_date(d)
format_date(d) ==
    IF d.t = "date" THEN Str(
        CASE d.v = "2024-01-15" -> "2024-01-15T00:00:00.000Z"
          [] OTHER -> d.v)
    ELSE IF d.t = "str" THEN d
    ELSE Str(d.v)

\* auto_layout(category)
auto_layout(category) ==
    IF category \in {Str("Core Ideas"), Str("Core Insights")} THEN Str("simplified")
    ELSE IF category = Str("But what about...?") THEN Str("rebuttal")
    ELSE Str("default")

\* validate_frontmatter(content_type, frontmatter): the set of errors
validate_frontmatter(ct, frontmatter) ==
    {<<"missing", f>> : f \in {g \in RequiredFields(ct) :
        g \notin DOMAIN frontmatter \/ frontmatter[g] \in {NoneValue, Str("")}}}
    \cup
    {<<"option", f>> : f \in {g \in DOMAIN frontmatter \cap DOMAIN EnumOptions(ct) :
        ~(frontmatter[g].t = "str" /\ frontmatter[g].v \in EnumOptions(ct)[g])}}

\* apply_defaults(content_type, frontmatter)
apply_defaults(ct, frontmatter) ==
    LET Layout(result) ==
            IF /\ ct = "article"
               /\ "category" \in DOMAIN result
               /\ ("layout" \notin DOMAIN frontmatter \/ ~Truthy(frontmatter["layout"]))
            THEN [k \in DOMAIN result \cup {"layout"} |->
                    IF k = "layout" THEN auto_layout(result["category"]) ELSE result[k]]
            ELSE result
    IN  Layout([k \in DOMAIN frontmatter \cup DOMAIN Defaults(ct) |->
                  IF k \in DOMAIN frontmatter THEN frontmatter[k] ELSE Defaults(ct)[k]])

(***************************************************************************)
(* content_service.py: the markdown file.  A file is the record            *)
(*   [lines, body]: lines are the "key: scalar" lines between the two      *)
(* '---' marks, each scalar either double-quoted (q) or plain; body is the *)
(* text after the closing mark.  Strings are atomic here, so what the code *)
(* asks of their characters is tabulated for the strings of the model.     *)
(***************************************************************************)
\* strings holding one of the characters _yaml_value quotes for
SpecialStrings ==
    {"2024-01-15", "2024-01-15T00:00:00.000Z", "2024-06-01T19:00:00.000Z", "But what about...?"}
\* value.lower() in ('true', 'false', 'yes', 'no', 'null', 'on', 'off')
YamlWords == {"true", "false", "yes", "no", "null", "on", "off"}
\* plain scalars the YAML resolver reads as int, as date
PlainNumbers == {"5", "1984"}
PlainDates == {"2024-01-15"}

\* _yaml_value(value): the scalar written after "key: "
yaml_value(value) ==
    IF value.t = "str" /\ (value.v \in SpecialStrings \/ value.v \in YamlWords)
    THEN [q |-> TRUE, s |-> value.v]
    ELSE [q |-> FALSE, s |-> IF value.t = "none" THEN "None" ELSE value.v]

\* yaml.safe_load on one scalar
yaml_load(scalar) ==
    IF scalar.q THEN Str(scalar.s)
    ELSE IF scalar.s \in {"true", "yes", "on"} THEN Bool("true")
    ELSE IF scalar.s \in {"false", "no", "off"} THEN Bool("false")
    ELSE IF scalar.s \in {"null", "~", ""} THEN NoneValue
    ELSE IF scalar.s \in PlainNumbers THEN Num(scalar.s)
    ELSE IF scalar.s \in PlainDates THEN Date(scalar.s)
    ELSE Str(scalar.s)

\* body.endswith('\n'); body + '\n'; text.strip()
EndsWithNewline(s) == s \in {"One\n", "Two\n"}
AddNewline(s) == CASE s = "One" -> "One\n" [] s = "Two" -> "Two\n" [] OTHER -> s
Strip(s) == CASE s = "One\n" -> "One" [] s = "Two\n" -> "Two" [] OTHER -> s

\* generate_markdown(content_type, frontmatter, body): [markdown, errors]
generate_markdown(ct, frontmatter, body) ==
    LET Line(fm, f) ==
            [k |-> f,
             scalar |-> yaml_value(IF f \in DateFields(ct) THEN format_date(fm[f])
                                   ELSE fm[f])]
        Build(fm, keys) ==
            [markdown |-> [lines |-> [i \in 1..Len(keys) |-> Line(fm, keys[i])],
                           body |-> IF body = "" \/ EndsWithNewline(body) THEN body
                                    ELSE AddNewline(body)],
             errors |-> {}]
        Validated(fm, errors) ==
            IF errors # {} THEN [markdown |-> None, errors |-> errors]
            ELSE Build(fm, SelectSeq(Fields(ct),
                                     LAMBDA f : f \in DOMAIN fm /\ fm[f] # NoneValue))
        Defaulted(fm) == Validated(fm, validate_frontmatter(ct, fm))
    IN  IF ct \notin ContentTypes
        THEN [markdown |-> None, errors |-> {<<"unknown", ct>>}]
        ELSE Defaulted(apply_defaults(ct, frontmatter))

\* get_file_path(content_type, slug)
get_file_path(ct, slug) == [dir |-> Directory(ct), stem |-> slug]

\* get_image_path(content_type, slug)
get_image_path(ct, slug) ==
    [dir |-> IF ct = "bio" THEN "public/images/bios/"
             ELSE IF ct = "briefing" THEN "public/images/briefings/"
             ELSE "public/images/",
     stem |-> slug]

(***************************************************************************)
(* content_reader_service.py                                               *)
(***************************************************************************)
\* _parse_frontmatter(raw_text): [frontmatter, body]
parse_frontmatter(raw) ==
    [frontmatter |->
        [k \in {raw.lines[i].k : i \in 1..Len(raw.lines)} |->
            yaml_load(raw.lines[CHOOSE i \in 1..Len(raw.lines) :
                /\ raw.lines[i].k = k
                /\ \A j \in (i + 1)..Len(raw.lines) : raw.lines[j].k # k].scalar)],
     body |-> Strip(raw.body)]

\* _get_title_from_frontmatter: title or heading or name or 'Untitled'
TitleOf(fm) ==
    IF Truthy(Get(fm, "title", NoneValue)) THEN fm["title"]
    ELSE IF Truthy(Get(fm, "heading", NoneValue)) THEN fm["heading"]
    ELSE IF Truthy(Get(fm, "name", NoneValue)) THEN fm["name"]
    ELSE Str("Untitled")

\* file names of the model, in sorted order
Stems == <<"a", "b", "x">>

\* list_files_in_directory(relative_dir): the sorted '*.md' files of the clone
list_files_in_directory(m, dir) ==
    SelectSeq([i \in 1..Len(Stems) |-> [dir |-> dir, stem |-> Stems[i]]],
              LAMBDA p : p \in DOMAIN m.wt)

\* list_content lines 122-143: the entry made for one file
Item(m, ct, file_path) ==
    LET Entry(fm) ==
            [content_type |-> ct,
             slug |-> IF Truthy(Get(fm, "slug", Str(""))) THEN fm["slug"]
                      ELSE Str(file_path.stem),
             title |-> TitleOf(fm),
             frontmatter |-> fm,
             file_path |-> file_path]
    IN  Entry(parse_frontmatter(m.wt[file_path]).frontmatter)

\* list_content lines 113-143 for one content type
Scan(m, ct) ==
    LET Entries(files) == [i \in 1..Len(files) |-> Item(m, ct, files[i])]
    IN  Entries(list_files_in_directory(m, Directory(ct)))

\* _cache_key(name, *args)
cache_key(name, ct, slug) == [name |-> name, ct |-> ct, slug |-> slug]

\* cache.set(key, value, timeout)
CacheSet(c, key, value) == [k \in DOMAIN c \cup {key} |-> IF k = key THEN value ELSE c[k]]

EmptyCache == [k \in {} |-> <<>>]

\* invalidate_cache(): cache.clear()
invalidate_cache(c) == EmptyCache

\* _ensure_repo_available(): ensure_repo() with its exception swallowed
ensure_repo_available(m, rem, ok) == ensure_repo(m, rem, ok).m

\* list_content(content_type), run on the clone m and cache c of w:
\* the result r and the clone and cache it leaves
list_content(w, ct, rem, ok) ==
    LET key == cache_key("list", ct, "")
        Cached(m1, results) == [r |-> results, w |-> [m |-> m1, c |-> CacheSet(w.c, key, results)]]
        Scanned(m1) == Cached(m1, Scan(m1, ct))
    IN  IF key \in DOMAIN w.c THEN [r |-> w.c[key], w |-> w]
        ELSE Scanned(ensure_repo_available(w.m, rem, ok))

\* _find_file_path_by_slug(content_type, slug): r is <<path>>, or <<>> for None
find_file_path_by_slug(w, ct, slug, rem, ok) ==
    LET direct_path == get_file_path(ct, slug)
        Matched(listed, hits) ==
            [r |-> IF hits = <<>> THEN <<>> ELSE <<hits[1].file_path>>, w |-> listed.w]
        Listed(listed) ==
            Matched(listed, SelectSeq(listed.r, LAMBDA item : item.slug = Str(slug)))
    IN  IF FileExists(w.m, direct_path) THEN [r |-> <<direct_path>>, w |-> w]
        ELSE Listed(list_content(w, ct, rem, ok))

\* check_slug_exists(content_type, slug)
check_slug_exists(w, ct, slug, rem, ok) ==
    LET Exists(found) == [r |-> found.r # <<>>, w |-> found.w]
    IN  Exists(find_file_path_by_slug(w, ct, slug, rem, ok))

\* read_content(content_type, slug): r is <<result>>, or <<>> for None
read_content(w, ct, slug, rem, ok) ==
    LET key == cache_key("read", ct, slug)
        Cached(found, result) ==
            [r |-> <<result>>, w |-> [found.w EXCEPT !.c = CacheSet(found.w.c, key, result)]]
        Parsed(found, raw, parsed) ==
            Cached(found, [frontmatter |-> parsed.frontmatter, body |-> parsed.body,
                           raw_markdown |-> raw, file_path |-> found.r[1]])
        Raw(found, raw) == Parsed(found, raw, parse_frontmatter(raw))
        Found(found) ==
            IF found.r = <<>> THEN [r |-> <<>>, w |-> found.w]
            ELSE IF ~FileExists(found.w.m, found.r[1]) THEN [r |-> <<>>, w |-> found.w]
            ELSE Raw(found, found.w.m.wt[found.r[1]])
        Ensured(m1) == Found(find_file_path_by_slug([w EXCEPT !.m = m1], ct, slug, rem, ok))
    IN  IF key \in DOMAIN w.c THEN [r |-> <<w.c[key]>>, w |-> w]
        ELSE Ensured(ensure_repo_available(w.m, rem, ok))

(***************************************************************************)
(* accounts/models.py: UserProfile (CapabilityPolicy)                      *)
(***************************************************************************)
Users ==
    {[name |-> "ed", role |-> "editor", local_group |-> ""],
     [name |-> "gl", role |-> "group_lead", local_group |-> "oxford"],
     [name |-> "co", role |-> "contributor", local_group |-> ""]}

EditorTypes == {"article", "briefing", "news", "local_event", "local_news", "ecosystem"}
GroupTypes == {"local_event", "local_news"}

\* the publish check answered from the create table
PublishIfCreate(u, ct, local_group) ==
    CASE u.role = "admin" -> TRUE
      [] u.role = "editor" -> ct \in EditorTypes
      [] u.role = "group_lead" -> ct \in GroupTypes /\ local_group = Str(u.local_group)
      [] u.role = "contributor" ->
            ct \in {"article", "briefing", "news", "local_event", "local_news"}
      [] OTHER -> FALSE

\* the publish check without the comparison of the groups
PublishAnyGroup(u, ct, local_group) ==
    CASE u.role = "admin" -> TRUE
      [] u.role = "editor" -> ct \in EditorTypes
      [] u.role = "group_lead" -> ct \in GroupTypes
      [] OTHER -> FALSE

\* can_publish_directly(self, content_type, local_group)
can_publish_directly(u, ct, local_group) ==
    CASE u.role = "admin" -> TRUE
      [] u.role = "editor" -> ct \in EditorTypes
      [] u.role = "group_lead" -> ct \in GroupTypes /\ local_group = Str(u.local_group)
      [] OTHER -> FALSE

\* can_create(self, content_type, local_group)
can_create(u, ct, local_group) ==
    CASE u.role = "admin" -> TRUE
      [] u.role = "editor" -> ct \in EditorTypes
      [] u.role = "group_lead" -> ct \in GroupTypes
      [] u.role = "contributor" ->
            ct \in {"article", "briefing", "news", "local_event", "local_news"}
      [] OTHER -> FALSE

\* the approve check without the comparison of the groups
ApproveAnyGroup(u, ct, local_group) ==
    CASE u.role = "admin" -> TRUE
      [] u.role = "editor" -> TRUE
      [] u.role = "group_lead" -> ct \in GroupTypes \cup {None}
      [] OTHER -> FALSE

\* can_approve(self, content_type, local_group)
can_approve(u, ct, local_group) ==
    CASE u.role = "admin" -> TRUE
      [] u.role = "editor" -> TRUE
      [] u.role = "group_lead" ->
            /\ Truthy(local_group) /\ local_group = Str(u.local_group)
            /\ ct \in GroupTypes \cup {None}
      [] OTHER -> FALSE

\* the edit check with the group compared even when none is given
EditOwnGroupOnly(u, ct, local_group) ==
    CASE u.role = "admin" -> TRUE
      [] u.role = "editor" -> TRUE
      [] u.role = "group_lead" -> ct \in GroupTypes /\ local_group = Str(u.local_group)
      [] OTHER -> FALSE

\* can_edit(self, content_type, local_group)
can_edit(u, ct, local_group) ==
    CASE u.role = "admin" -> TRUE
      [] u.role = "editor" -> TRUE
      [] u.role = "group_lead" ->
            ct \in GroupTypes /\ (Truthy(local_group) => local_group = Str(u.local_group))
      [] OTHER -> FALSE

\* can_delete(self, content_type)
can_delete(u, ct) == u.role \in {"admin", "editor"}

(***************************************************************************)
(* chat/models.py: ContentDraft and ContentAuditLog rows                   *)
(***************************************************************************)
NoSha == <<0, 0>>                       \* git_commit_sha = ''
NoPath == [dir |-> "", stem |-> ""]     \* image_path = ''
NoImage == ""                           \* image_data = None
NoTime == "None"                        \* reviewed_at = None
Now == "now"                            \* timezone.now() of the call

\* ContentDraft.objects.create(...)
Draft(u, ct, title, slug, frontmatter, body, image_data, image_path, status, sha) ==
    [created_by |-> u.name, content_type |-> ct, title |-> title, slug |-> slug,
     frontmatter_json |-> frontmatter, body_markdown |-> body,
     image_data |-> image_data, image_path |-> image_path,
     status |-> status, reviewer |-> "", review_feedback |-> "",
     git_commit_sha |-> sha, reviewed_at |-> NoTime]

\* json.dumps of frontmatter_json: a datetime.date is not JSON serializable
JsonSerializable(frontmatter) == \A k \in DOMAIN frontmatter : frontmatter[k].t # "date"

\* _log_audit(content_type, slug, action, user, sha): the row it creates
AuditEntry(ct, slug, action, u, sha) ==
    [content_type |-> ct, slug |-> slug, action |-> action, user |-> u.name,
     git_commit_sha |-> sha, changes_summary |-> ""]

(***************************************************************************)
(* chat/views.py: the handlers.  A handler is a function of the state      *)
(*   s = [m, c, drafts, audit, nextId, returned]                           *)
(* (clone, cache, ContentDraft rows, ContentAuditLog rows, next commit id, *)
(* commits returned), the remote rem, the acting user u, the intent and    *)
(* the fault 'fail' the call meets: "ensure" (the transport is down),      *)
(* "write" and "image" (writing the file raises), "commit" (index.commit   *)
(* raises), "draft" (saving the ContentDraft row raises), "db" (every      *)
(* ContentDraft write raises), "audit" (the ContentAuditLog write raises)  *)
(* or "none".  Its value is the outcome                                    *)
(*   [result, threw, s, sha, existing]:                                    *)
(* threw names the step whose exception reached the handler.               *)
(***************************************************************************)
Faults == {"none", "ensure", "write", "image", "commit", "draft", "db", "audit"}

Out(result, threw, s, sha, existing) ==
    [result |-> result, threw |-> threw, s |-> s, sha |-> sha, existing |-> existing]

\* frontmatter.get('title') or frontmatter.get('heading') or frontmatter.get('name', 'Untitled')
IntentTitle(fm) ==
    IF Truthy(Get(fm, "title", NoneValue)) THEN fm["title"]
    ELSE IF Truthy(Get(fm, "heading", NoneValue)) THEN fm["heading"]
    ELSE Get(fm, "name", Str("Untitled"))

\* the git part of a publish (views.py 354-362, 539-547, 1020-1033):
\* ensure_repo(); write_file_to_repo(file_path, markdown); the image file if
\* there is one; commit_locally(files_written, ...)
publish_files(m, rem, file_path, markdown, image_bytes, image_repo_path, id, fail) ==
    LET hasImage == image_bytes # NoImage /\ image_repo_path # NoPath
        files_written == {file_path} \cup (IF hasImage THEN {image_repo_path} ELSE {})
        Committed(m3, cl) ==
            IF cl.raised THEN [threw |-> "commit", m |-> cl.m, sha |-> NoSha]
            ELSE IF fail = "commit"
                 THEN [threw |-> "commit", m |-> Stage(m3, files_written), sha |-> NoSha]
            ELSE [threw |-> "none", m |-> cl.m, sha |-> cl.sha]
        Imaged(m3) == Committed(m3, commit_locally(m3, files_written, id))
        Written(m2) ==
            IF hasImage /\ fail = "image" THEN [threw |-> "image", m |-> m2, sha |-> NoSha]
            ELSE Imaged(IF hasImage THEN write_file_to_repo(m2, image_repo_path, image_bytes)
                        ELSE m2)
        Ensured(e) ==
            IF e.raised THEN [threw |-> "ensure", m |-> e.m, sha |-> NoSha]
            ELSE IF fail = "write" THEN [threw |-> "write", m |-> e.m, sha |-> NoSha]
            ELSE Written(write_file_to_repo(e.m, file_path, markdown))
    IN  Ensured(ensure_repo(m, rem, fail # "ensure"))

\* the state after the git part pub of a publish that started with commit id s.nextId
AfterPublish(s, pub) ==
    [s EXCEPT !.m = pub.m,
              !.nextId = IF pub.threw = "none" THEN @ + 1 ELSE @,
              !.returned = IF pub.threw = "none" THEN @ \cup {s.nextId} ELSE @]

\* _log_audit: the row is appended; an exception of the write is swallowed
log_audit(s, entry, fail) ==
    IF fail = "audit" THEN s ELSE [s EXCEPT !.audit = Append(@, entry)]

\* the except branch saving the draft without the image
FallbackDraftNoImage(u, ct, title, slug, frontmatter, body, image_bytes, image_repo_path) ==
    Draft(u, ct, title, slug, frontmatter, body, NoImage, NoPath, "pending", NoSha)

\* views.py 385-404: the except branch of the create handler
FallbackDraft(u, ct, title, slug, frontmatter, body, image_bytes, image_repo_path) ==
    Draft(u, ct, title, slug, frontmatter, body, image_bytes, image_repo_path,
          "pending", NoSha)

\* _handle_content_action(action_data, profile, conv, user)
handle_content_action(s, rem, u, intent, fail) ==
    LET ct == intent.content_type
        frontmatter == intent.frontmatter
        body == IF intent.body = <<>> THEN "" ELSE intent.body[1]
        slug == Get(frontmatter, "slug", Str("")).v
        title == IntentTitle(frontmatter)
        local_group == Get(frontmatter, "localGroup", Str(""))
        image_bytes == intent.image
        image_repo_path == IF image_bytes # NoImage THEN get_image_path(ct, slug) ELSE NoPath
        file_path == get_file_path(ct, slug)
        pending == Draft(u, ct, title, slug, frontmatter, body, image_bytes,
                         image_repo_path, "pending", NoSha)
        fallback == FallbackDraft(u, ct, title, slug, frontmatter, body, image_bytes,
                                  image_repo_path)
        Recorded(s2, pub, threw) ==
            IF threw # "none"
            THEN IF fail = "db" THEN Out("raised", threw, s2, NoSha, <<>>)
                 ELSE Out("fallback", threw,
                          [s2 EXCEPT !.drafts = Append(@, fallback)], NoSha, <<>>)
            ELSE Out("published", "none",
                     [log_audit([s2 EXCEPT !.drafts =
                                    Append(@, Draft(u, ct, title, slug, frontmatter, body,
                                                    NoImage, NoPath, "published", pub.sha))],
                                AuditEntry(ct, slug, "create", u, pub.sha), fail)
                         EXCEPT !.c = invalidate_cache(s2.c)],
                     pub.sha, <<>>)
        Attempted(s1, pub) ==
            Recorded(AfterPublish(s1, pub), pub,
                     IF pub.threw # "none" THEN pub.threw
                     ELSE IF fail \in {"draft", "db"} THEN "draft" ELSE "none")
        Generated(s1, gen) ==
            IF gen.errors # {} THEN Out("invalid", "none", s1, NoSha, <<>>)
            ELSE IF can_publish_directly(u, ct, local_group)
            THEN Attempted(s1, publish_files(s1.m, rem, file_path, gen.markdown, image_bytes,
                                             image_repo_path, s.nextId, fail))
            ELSE IF fail = "db" THEN Out("raised", "draft", s1, NoSha, <<>>)
            ELSE Out("pending", "none", [s1 EXCEPT !.drafts = Append(@, pending)],
                     NoSha, <<>>)
        Unused(s1) ==
            IF ~can_create(u, ct, local_group) THEN Out("denied", "none", s1, NoSha, <<>>)
            ELSE Generated(s1, generate_markdown(ct, frontmatter, body))
        Checked(chk, s1) ==
            IF chk.r THEN Out("duplicate", "none", s1, NoSha, <<>>) ELSE Unused(s1)
        Looked(chk) == Checked(chk, [s EXCEPT !.m = chk.w.m, !.c = chk.w.c])
    IN  Looked(check_slug_exists([m |-> s.m, c |-> s.c], ct, slug, rem, fail # "ensure"))

\* _handle_edit_action(action_data, profile, conv, user);
\* intent.body is <<>> when the intent has no body, image NoImage when it has none
handle_edit_action(s, rem, u, intent, fail) ==
    LET ct == intent.content_type
        slug == intent.slug
        new_frontmatter == intent.frontmatter
        new_body == intent.body
        local_group == Get(new_frontmatter, "localGroup", Str(""))
        image_bytes == intent.image
        image_repo_path == IF image_bytes # NoImage THEN get_image_path(ct, slug) ELSE NoPath
        file_path == get_file_path(ct, slug)
        Recorded(rd, s2, pub, merged_fm, body) ==
            IF pub.threw # "none" THEN Out("error", pub.threw, s2, NoSha, rd.r)
            ELSE IF fail \in {"draft", "db"} \/ ~JsonSerializable(merged_fm)
                 THEN Out("error", "draft", s2, NoSha, rd.r)
            ELSE Out("edited", "none",
                     [log_audit([s2 EXCEPT !.drafts =
                                    Append(@, Draft(u, ct, IntentTitle(merged_fm), slug,
                                                    merged_fm, body, NoImage, NoPath,
                                                    "published", pub.sha))],
                                AuditEntry(ct, slug, "edit", u, pub.sha), fail)
                         EXCEPT !.c = invalidate_cache(s2.c)],
                     pub.sha, rd.r)
        Attempted(rd, s1, pub, merged_fm, body) ==
            Recorded(rd, AfterPublish(s1, pub), pub, merged_fm, body)
        Generated(rd, s1, merged_fm, body, gen) ==
            IF gen.errors # {} THEN Out("invalid", "none", s1, NoSha, rd.r)
            ELSE Attempted(rd, s1,
                           publish_files(s1.m, rem, file_path, gen.markdown, image_bytes,
                                         image_repo_path, s.nextId, fail),
                           merged_fm, body)
        Merged(rd, s1, merged_fm, body) ==
            Generated(rd, s1, merged_fm, body, generate_markdown(ct, merged_fm, body))
        Existing(rd, s1) ==
            IF rd.r = <<>> THEN Out("notfound", "none", s1, NoSha, <<>>)
            ELSE Merged(rd, s1, Update(rd.r[1].frontmatter, new_frontmatter),
                        IF new_body # <<>> THEN new_body[1] ELSE rd.r[1].body)
        Looked(rd) == Existing(rd, [s EXCEPT !.m = rd.w.m, !.c = rd.w.c])
    IN  IF ct = "" \/ slug = "" THEN Out("missing", "none", s, NoSha, <<>>)
        ELSE IF ~can_edit(u, ct, local_group) THEN Out("denied", "none", s, NoSha, <<>>)
        ELSE Looked(read_content([m |-> s.m, c |-> s.c], ct, slug, rem, fail # "ensure"))

\* _handle_delete_action(action_data, profile, conv, user)
handle_delete_action(s, rem, u, intent, fail) ==
    LET ct == intent.content_type
        slug == intent.slug
        file_path == get_file_path(ct, slug)
        Recorded(rd, s2, pub) ==
            IF pub.threw # "none" THEN Out("error", pub.threw, s2, NoSha, rd.r)
            ELSE Out("deleted", "none",
                     [log_audit(s2, AuditEntry(ct, slug, "delete", u, pub.sha), fail)
                         EXCEPT !.c = invalidate_cache(s2.c)],
                     pub.sha, rd.r)
        Attempted(rd, s1, pub) == Recorded(rd, AfterPublish(s1, pub), pub)
        Committed(rd, s1, m2, cl) ==
            Attempted(rd, s1,
                      IF cl.raised THEN [threw |-> "commit", m |-> cl.m, sha |-> NoSha]
                      ELSE IF fail = "commit"
                           THEN [threw |-> "commit", m |-> Stage(m2, {file_path}),
                                 sha |-> NoSha]
                      ELSE [threw |-> "none", m |-> cl.m, sha |-> cl.sha])
        Deleted(rd, s1, m2) == Committed(rd, s1, m2, commit_locally(m2, {file_path}, s.nextId))
        Ensured(rd, s1, e) ==
            IF e.raised
            THEN Attempted(rd, s1, [threw |-> "ensure", m |-> e.m, sha |-> NoSha])
            ELSE IF ~FileExists(e.m, file_path)
                 THEN Out("absent", "none", [s1 EXCEPT !.m = e.m], NoSha, rd.r)
            ELSE IF fail = "write"
                 THEN Attempted(rd, s1, [threw |-> "write", m |-> e.m, sha |-> NoSha])
            ELSE Deleted(rd, s1, delete_file_from_repo(e.m, file_path))
        Existing(rd, s1) ==
            IF rd.r = <<>> THEN Out("notfound", "none", s1, NoSha, <<>>)
            ELSE Ensured(rd, s1, ensure_repo(s1.m, rem, fail # "ensure"))
        Looked(rd) == Existing(rd, [s EXCEPT !.m = rd.w.m, !.c = rd.w.c])
    IN  IF ct = "" \/ slug = "" THEN Out("missing", "none", s, NoSha, <<>>)
        ELSE IF ~can_delete(u, ct) THEN Out("denied", "none", s, NoSha, <<>>)
        ELSE Looked(read_content([m |-> s.m, c |-> s.c], ct, slug, rem, fail # "ensure"))

\* approve_draft(request, draft_id), for the ContentDraft row number intent.draft
approve_draft(s, rem, u, intent, fail) ==
    LET i == intent.draft
        draft == s.drafts[i]
        local_group == Get(draft.frontmatter_json, "localGroup", Str(""))
        file_path == get_file_path(draft.content_type, draft.slug)
        Recorded(s2, pub) ==
            IF pub.threw # "none" THEN Out("error", pub.threw, s2, NoSha, <<>>)
            ELSE IF fail \in {"draft", "db"} THEN Out("error", "draft", s2, NoSha, <<>>)
            ELSE Out("approved", "none",
                     [s2 EXCEPT !.drafts[i] =
                         [draft EXCEPT !.status = "approved", !.reviewer = u.name,
                                       !.reviewed_at = Now,
                                       !.git_commit_sha = pub.sha]],
                     pub.sha, <<>>)
        Attempted(pub) == Recorded(AfterPublish(s, pub), pub)
        Generated(gen) ==
            IF gen.errors # {} THEN Out("invalid", "none", s, NoSha, <<>>)
            ELSE Attempted(publish_files(s.m, rem, file_path, gen.markdown, draft.image_data,
                                         draft.image_path, s.nextId, fail))
    IN  IF draft.status # "pending" THEN Out("notfound", "none", s, NoSha, <<>>)
        ELSE IF ~can_approve(u, draft.content_type, local_group)
             THEN Out("denied", "none", s, NoSha, <<>>)
        ELSE Generated(generate_markdown(draft.content_type, draft.frontmatter_json,
                                         draft.body_markdown))

\* the reject that does not store the feedback
RejectWithoutFeedback(s, u, intent, feedback, fail) ==
    LET i == intent.draft
        draft == s.drafts[i]
        local_group == Get(draft.frontmatter_json, "localGroup", Str(""))
    IN  IF draft.status # "pending" THEN Out("notfound", "none", s, NoSha, <<>>)
        ELSE IF ~can_approve(u, draft.content_type, local_group)
             THEN Out("denied", "none", s, NoSha, <<>>)
        ELSE IF fail \in {"draft", "db"} THEN Out("raised", "draft", s, NoSha, <<>>)
        ELSE Out("rejected", "none",
                 [s EXCEPT !.drafts[i] =
                     [draft EXCEPT !.status = "rejected", !.reviewer = u.name,
                                   !.reviewed_at = Now]],
                 NoSha, <<>>)

\* reject_draft(request, draft_id) with the POST field feedback, for the
\* ContentDraft row number intent.draft; draft.save() is outside any try
reject_draft(s, u, intent, feedback, fail) ==
    LET i == intent.draft
        draft == s.drafts[i]
        local_group == Get(draft.frontmatter_json, "localGroup", Str(""))
    IN  IF draft.status # "pending" THEN Out("notfound", "none", s, NoSha, <<>>)
        ELSE IF ~can_approve(u, draft.content_type, local_group)
             THEN Out("denied", "none", s, NoSha, <<>>)
        ELSE IF fail \in {"draft", "db"} THEN Out("raised", "draft", s, NoSha, <<>>)
        ELSE Out("rejected", "none",
                 [s EXCEPT !.drafts[i] =
                     [draft EXCEPT !.status = "rejected", !.reviewer = u.name,
                                   !.reviewed_at = Now, !.review_feedback = feedback]],
                 NoSha, <<>>)

\* profile.can_approve(): both arguments default to None
CanApproveAny(u) == can_approve(u, None, NoneValue)

\* the rows of ContentDraft.objects.filter(status='pending')
PendingRows(ds) == {i \in 1..Len(ds) : ds[i].status = "pending"}

\* frontmatter_json__localGroup=profile.local_group
GroupIs(row, group) ==
    /\ "localGroup" \in DOMAIN row.frontmatter_json
    /\ row.frontmatter_json["localGroup"] = Str(group)

\* pending_list(request): the response is forbidden, or the rows rendered
pending_list(ds, u) ==
    IF ~CanApproveAny(u) THEN [forbidden |-> TRUE, shown |-> {}]
    ELSE IF u.role = "group_lead"
         THEN [forbidden |-> FALSE,
               shown |-> {i \in PendingRows(ds) :
                            /\ ds[i].content_type \in {"local_event", "local_news"}
                            /\ GroupIs(ds[i], u.local_group)}]
    ELSE [forbidden |-> FALSE, shown |-> PendingRows(ds)]

\* review_changes(request): the pending_drafts it renders
review_changes(ds, u) ==
    IF u.role = "group_lead" /\ u.local_group # ""
    THEN [forbidden |-> FALSE, shown |-> {i \in PendingRows(ds) : GroupIs(ds[i], u.local_group)}]
    ELSE [forbidden |-> FALSE, shown |-> PendingRows(ds)]

\* _handle_read_action: read_content(content_type, slug)
handle_read_action(s, rem, intent, fail) ==
    LET Looked(rd) ==
            Out(IF rd.r = <<>> THEN "notfound" ELSE "read", "none",
                [s EXCEPT !.m = rd.w.m, !.c = rd.w.c], NoSha, rd.r)
    IN  IF intent.content_type = "" \/ intent.slug = ""
        THEN Out("missing", "none", s, NoSha, <<>>)
        ELSE Looked(read_content([m |-> s.m, c |-> s.c], intent.content_type, intent.slug,
                                 rem, fail # "ensure"))

\* _handle_list_action: list_content(content_type)
handle_list_action(s, rem, intent, fail) ==
    LET Listed(ls) == Out("listed", "none", [s EXCEPT !.m = ls.w.m, !.c = ls.w.c], NoSha, <<>>)
    IN  Listed(list_content([m |-> s.m, c |-> s.c], intent.content_type, rem,
                            fail # "ensure"))

(***************************************************************************)
(* Requests.  A mutating handler runs ensure_repo, writes or deletes the   *)
(* content file and calls commit_locally (views.py 354-362, 539-547,       *)
(* 623-632, 1020-1033); a reading one runs ensure_repo through             *)
(* _ensure_repo_available; publish_changes calls push_to_remote;           *)
(* review_changes and pending_publish call get_unpushed_changes.           *)
(***************************************************************************)
Kinds == {"write", "delete", "read", "push", "unpushed"}

IdleLoc == [kind |-> "none", path |-> [dir |-> ArticleDir, stem |-> "a"], val |-> "v2",
            ahead |-> FALSE, count |-> 0, pushes |-> 0, pulls |-> 0,
            rejected |-> FALSE, sha |-> <<0, 0>>, ret |-> -1, raised |-> FALSE,
            why |-> ""]

BaseId == 100   \* ids of commits made by other clients start here
InitialRemote ==
    <<[id |-> BaseId, gen |-> 0,
       set |-> [p \in {[dir |-> ArticleDir, stem |-> "a"]} |-> "v1"], del |-> {}]>>

RemoteUpdates(rem) == Cardinality({i \in 1..Len(rem) : rem[i].id > BaseId})

InitGit ==
    /\ remote = InitialRemote
    /\ mirror \in {NoMirror, Clone(InitialRemote)}
    /\ git_lock = NoReq
    /\ pc = [r \in Req |-> "idle"]
    /\ loc = [r \in Req |-> IdleLoc]
    /\ nextId = 1
    /\ returned = {}
    /\ pushlog = [requests |-> 0, started |-> 0, done |-> 0,
                  commitSince |-> FALSE, delivered |-> FALSE]
    /\ drafts = <<>>
    /\ audit = <<>>
    /\ cache = EmptyCache
    /\ last = [op |-> "none", result |-> "", threw |-> "none", user |-> "",
               intent |-> [content_type |-> "", slug |-> "", frontmatter |-> << >>,
                           body |-> <<>>, image |-> "", draft |-> 0]]

\* a request arrives
Start(r) ==
    /\ pc[r] = "idle"
    /\ \E k \in Kinds, p \in GitPaths, v \in GitDocs :
        /\ k \in {"write", "delete"} => nextId <= MaxCommits
        /\ pushlog.requests < MaxRequests
        /\ k \notin {"write", "delete"} => p = IdleLoc.path
        /\ loc' = [loc EXCEPT ![r] = [IdleLoc EXCEPT !.kind = k, !.path = p, !.val = v]]
        /\ pc' = [pc EXCEPT ![r] =
                    CASE k = "push" -> "pr_wait"
                      [] k = "unpushed" -> "gu_fetch"
                      [] OTHER -> "er_fetch"]
        /\ pushlog' = [pushlog EXCEPT !.requests = @ + 1,
                                      !.started = IF k = "push" THEN @ + 1 ELSE @]
    /\ UNCHANGED <<remote, mirror, git_lock, nextId, returned>>
    /\ UNCHANGED cmsVars

\* the call returns ret (a commit's sha, or a count), or raises
Finish(r, sha, ret, raised) ==
    /\ pc' = [pc EXCEPT ![r] = "idle"]
    /\ loc' = [loc EXCEPT ![r] = [IdleLoc EXCEPT !.sha = sha, !.ret = ret, !.raised = raised]]

Raise(r) == Finish(r, <<0, 0>>, -1, TRUE)

\* ensure_repo raises: why is "transport" (clone_from or origin.fetch raised)
\* or "checkout" (repo.git.checkout raised)
RaiseFrom(r, why) ==
    /\ pc' = [pc EXCEPT ![r] = "idle"]
    /\ loc' = [loc EXCEPT ![r] = [IdleLoc EXCEPT !.raised = TRUE, !.why = why]]

AfterEnsure(r) == IF loc[r].kind = "read" THEN "idle" ELSE "fs"

\* ensure_repo lines 63-83: clone, or fetch and checkout
ERFetch(r) ==
    /\ pc[r] = "er_fetch"
    /\ \E net \in BOOLEAN :
        IF ~net
        THEN /\ RaiseFrom(r, "transport")
             /\ mirror' = FailedFetch(mirror)
        ELSE IF ~mirror.exists
        THEN /\ mirror' = Clone(remote)
             /\ pc' = [pc EXCEPT ![r] = AfterEnsure(r)]
             /\ UNCHANGED loc
        ELSE /\ mirror' = Fetch(mirror, remote)
             /\ IF CheckoutFails(mirror)
                THEN RaiseFrom(r, "checkout")
                ELSE pc' = [pc EXCEPT ![r] = "er_check"] /\ UNCHANGED loc
    /\ UNCHANGED <<remote, git_lock, nextId, returned, pushlog>>
    /\ UNCHANGED cmsVars

\* ensure_repo lines 85-89: ahead = list(iter_commits(origin/branch..branch))
ERCheck(r) ==
    /\ pc[r] = "er_check"
    /\ loc' = [loc EXCEPT ![r].ahead = (AheadOf(mirror) # <<>>)]
    /\ pc' = [pc EXCEPT ![r] = "er_sync"]
    /\ UNCHANGED <<remote, mirror, git_lock, nextId, returned, pushlog>>
    /\ UNCHANGED cmsVars

\* ensure_repo lines 91-104: rebase, or reset --hard
ERSync(r) ==
    /\ pc[r] = "er_sync"
    /\ mirror' = EnsureSync(mirror, loc[r].ahead)
    /\ pc' = [pc EXCEPT ![r] = AfterEnsure(r)]
    /\ UNCHANGED <<remote, git_lock, loc, nextId, returned, pushlog>>
    /\ UNCHANGED cmsVars

\* write_file_to_repo / delete_file_from_repo in the handler
FsOp(r) ==
    /\ pc[r] = "fs"
    /\ IF loc[r].kind = "write"
       THEN /\ mirror' = write_file_to_repo(mirror, loc[r].path, loc[r].val)
            /\ pc' = [pc EXCEPT ![r] = "cl_wait"]
            /\ UNCHANGED loc
       ELSE IF FileExists(mirror, loc[r].path)
       THEN /\ mirror' = delete_file_from_repo(mirror, loc[r].path)
            /\ pc' = [pc EXCEPT ![r] = "cl_wait"]
            /\ UNCHANGED loc
       ELSE /\ Finish(r, <<0, 0>>, -1, FALSE)
            /\ UNCHANGED mirror
    /\ UNCHANGED <<remote, git_lock, nextId, returned, pushlog>>
    /\ UNCHANGED cmsVars

\* commit_locally line 205: with _git_lock
CLAcquireNoLock(r) ==
    /\ pc[r] = "cl_wait"
    /\ git_lock' = r
    /\ pc' = [pc EXCEPT ![r] = "cl_stage"]
    /\ UNCHANGED <<remote, mirror, loc, nextId, returned, pushlog>>
    /\ UNCHANGED cmsVars

CLAcquire(r) ==
    /\ pc[r] = "cl_wait"
    /\ git_lock = NoReq
    /\ git_lock' = r
    /\ pc' = [pc EXCEPT ![r] = "cl_stage"]
    /\ UNCHANGED <<remote, mirror, loc, nextId, returned, pushlog>>
    /\ UNCHANGED cmsVars

\* commit_locally lines 210-223
CLStage(r) ==
    /\ pc[r] = "cl_stage"
    /\ IF ~mirror.exists
       THEN /\ Raise(r)
            /\ git_lock' = NoReq
            /\ UNCHANGED mirror
       ELSE /\ mirror' = Stage(mirror, {loc[r].path})
            /\ pc' = [pc EXCEPT ![r] = "cl_commit"]
            /\ UNCHANGED <<loc, git_lock>>
    /\ UNCHANGED <<remote, nextId, returned, pushlog>>
    /\ UNCHANGED cmsVars

\* commit_locally lines 226-231
CLCommit(r) ==
    /\ pc[r] = "cl_commit"
    /\ git_lock' = NoReq
    /\ IF CommitFails(mirror)
       THEN /\ Raise(r)
            /\ UNCHANGED <<mirror, nextId, returned, pushlog>>
       ELSE /\ mirror' = Commit(mirror, nextId)
            /\ Finish(r, <<nextId, 0>>, -1, FALSE)
            /\ nextId' = nextId + 1
            /\ returned' = returned \cup {nextId}
            /\ pushlog' = [pushlog EXCEPT !.commitSince = TRUE]
    /\ UNCHANGED remote
    /\ UNCHANGED cmsVars

\* push_to_remote line 241: with _git_lock
PRAcquire(r) ==
    /\ pc[r] = "pr_wait"
    /\ git_lock = NoReq
    /\ git_lock' = r
    /\ pc' = [pc EXCEPT ![r] = "pr_count"]
    /\ UNCHANGED <<remote, mirror, loc, nextId, returned, pushlog>>
    /\ UNCHANGED cmsVars

\* every local commit is on the remote branch
Delivered(m, rem) == Ids(m.branch) \subseteq Ids(rem)

\* push_to_remote lines 254-258: count = len(ahead)
PushCountAll(m) == Len(m.branch)
PushCount(m) == Len(AheadOf(m))

\* the remote cannot fast-forward to the local branch: it has new commits
NonFastForward(m, rem) == MergeBase(rem, m.branch) # Len(rem)

\* a push_to_remote whose lock is released only when it returns normally
PRReturnKeepsLock(r, ret, raised, pushes, pulls, rej, m, rem) ==
    /\ pc' = [pc EXCEPT ![r] = "idle"]
    /\ loc' = [loc EXCEPT ![r] = [IdleLoc EXCEPT !.ret = ret, !.raised = raised,
                                              !.pushes = pushes, !.pulls = pulls,
                                              !.rejected = rej]]
    /\ git_lock' = IF raised THEN git_lock ELSE NoReq
    /\ pushlog' = [pushlog EXCEPT !.done = @ + 1, !.commitSince = FALSE,
                                  !.delivered = ~raised /\ Delivered(m, rem)]

\* push_to_remote returns or raises: the lock is released and the call logged
\* (pushes and pulls: the network pushes and pull-rebases the call made)
PRReturn(r, ret, raised, pushes, pulls, rej, m, rem) ==
    /\ pc' = [pc EXCEPT ![r] = "idle"]
    /\ loc' = [loc EXCEPT ![r] = [IdleLoc EXCEPT !.ret = ret, !.raised = raised,
                                              !.pushes = pushes, !.pulls = pulls,
                                              !.rejected = rej]]
    /\ git_lock' = NoReq
    /\ pushlog' = [pushlog EXCEPT !.done = @ + 1, !.commitSince = FALSE,
                                  !.delivered = ~raised /\ Delivered(m, rem)]

\* push_to_remote lines 246-262: count the commits ahead of origin/branch
PRCount(r) ==
    /\ pc[r] = "pr_count"
    /\ IF ~mirror.exists \/ PushCount(mirror) = 0
       THEN PRReturn(r, 0, FALSE, 0, 0, FALSE, mirror, remote)
       ELSE /\ loc' = [loc EXCEPT ![r].count = PushCount(mirror)]
            /\ pc' = [pc EXCEPT ![r] = "pr_push"]
            /\ UNCHANGED <<git_lock, pushlog>>
    /\ UNCHANGED <<remote, mirror, nextId, returned>>
    /\ UNCHANGED cmsVars

\* one origin.push() by request r, with outcome o
DoPush(r, o) ==
    /\ remote' = IF o = "pushed" THEN mirror.branch ELSE remote
    /\ mirror' = IF o = "pushed" THEN Pushed(mirror) ELSE mirror

\* push_to_remote lines 265-267: the first push
PRPush(r) ==
    /\ pc[r] = "pr_push"
    /\ \E net \in BOOLEAN : \E o \in PushOutcomes(mirror, remote, net) :
        /\ DoPush(r, o)
        /\ IF o = "raised"
           THEN /\ pc' = [pc EXCEPT ![r] = "pr_pull"]
                /\ loc' = [loc EXCEPT ![r].pushes = @ + 1,
                                      ![r].rejected = net /\ NonFastForward(mirror, remote)]
                /\ UNCHANGED <<git_lock, pushlog>>
           ELSE PRReturn(r, loc[r].count, FALSE, loc[r].pushes + 1, loc[r].pulls,
                         NonFastForward(mirror, remote), mirror', remote')
    /\ UNCHANGED <<nextId, returned>>
    /\ UNCHANGED cmsVars

\* push_to_remote line 269: repo.git.pull('--rebase')
PRPull(r) ==
    /\ pc[r] = "pr_pull"
    /\ \E net \in BOOLEAN :
        /\ mirror' = PullRebase(mirror, remote, net)
        /\ IF PullRaises(mirror, remote, net)
           THEN PRReturn(r, -1, TRUE, loc[r].pushes, loc[r].pulls + 1, loc[r].rejected,
                         mirror', remote)
           ELSE /\ pc' = [pc EXCEPT ![r] = "pr_retry"]
                /\ loc' = [loc EXCEPT ![r].pulls = @ + 1]
                /\ UNCHANGED <<git_lock, pushlog>>
    /\ UNCHANGED <<remote, nextId, returned>>
    /\ UNCHANGED cmsVars

\* push_to_remote lines 270-273: the retry
PRRetry(r) ==
    /\ pc[r] = "pr_retry"
    /\ \E net \in BOOLEAN : \E o \in PushOutcomes(mirror, remote, net) :
        /\ DoPush(r, o)
        /\ IF o = "raised"
           THEN PRReturn(r, -1, TRUE, loc[r].pushes + 1, loc[r].pulls, loc[r].rejected,
                         mirror', remote')
           ELSE PRReturn(r, loc[r].count, FALSE, loc[r].pushes + 1, loc[r].pulls,
                         loc[r].rejected, mirror', remote')
    /\ UNCHANGED <<nextId, returned>>
    /\ UNCHANGED cmsVars

\* get_unpushed_changes lines 281-307: fetch, then list origin/branch..branch
GUFetch(r) ==
    /\ pc[r] = "gu_fetch"
    /\ \E net \in BOOLEAN :
        /\ mirror' = IF mirror.exists /\ net THEN Fetch(mirror, remote) ELSE mirror
        /\ Finish(r, <<0, 0>>, IF mirror.exists /\ net THEN Len(AheadOf(mirror')) ELSE 0, FALSE)
    /\ UNCHANGED <<remote, git_lock, nextId, returned, pushlog>>
    /\ UNCHANGED cmsVars

\* another client of the repository pushes a commit to the remote
RemoteUpdate ==
    /\ RemoteUpdates(remote) < MaxRemoteUpdates
    /\ \E p \in GitPaths, v \in RemoteDocs :
        remote' = Append(remote, [id |-> BaseId + RemoteUpdates(remote) + 1, gen |-> 0,
                                  set |-> [q \in {p} |-> v], del |-> {}])
    /\ UNCHANGED <<mirror, git_lock, pc, loc, nextId, returned, pushlog>>
    /\ UNCHANGED cmsVars

NextGit ==
    \/ \E r \in Req : Start(r)
    \/ \E r \in Req : ERFetch(r)
    \/ \E r \in Req : ERCheck(r)
    \/ \E r \in Req : ERSync(r)
    \/ \E r \in Req : FsOp(r)
    \/ \E r \in Req : CLAcquire(r)
    \/ \E r \in Req : CLStage(r)
    \/ \E r \in Req : CLCommit(r)
    \/ \E r \in Req : PRAcquire(r)
    \/ \E r \in Req : PRCount(r)
    \/ \E r \in Req : PRPush(r)
    \/ \E r \in Req : PRPull(r)
    \/ \E r \in Req : PRRetry(r)
    \/ \E r \in Req : GUFetch(r)
    \/ RemoteUpdate

SpecGit == InitGit /\ [][NextGit]_vars

\* the same requests served one after the other
StartAlone(r) == Start(r) /\ \A q \in Req \ {r} : pc[q] = "idle"

NextGitSeq ==
    \/ \E r \in Req : StartAlone(r)
    \/ \E r \in Req : ERFetch(r)
    \/ \E r \in Req : ERCheck(r)
    \/ \E r \in Req : ERSync(r)
    \/ \E r \in Req : FsOp(r)
    \/ \E r \in Req : CLAcquire(r)
    \/ \E r \in Req : CLStage(r)
    \/ \E r \in Req : CLCommit(r)
    \/ \E r \in Req : PRAcquire(r)
    \/ \E r \in Req : PRCount(r)
    \/ \E r \in Req : PRPush(r)
    \/ \E r \in Req : PRPull(r)
    \/ \E r \in Req : PRRetry(r)
    \/ \E r \in Req : GUFetch(r)
    \/ RemoteUpdate

SpecGitSeq == InitGit /\ [][NextGitSeq]_vars

(***************************************************************************)
(* chat/views.py send_message: one inbound message, step by step.  The     *)
(* advisory service (call_claude) is called, its reply may carry an action *)
(* block, the action's handler runs (its git part in the steps above) and  *)
(* a scrape, read or list handler calls the advisory service once more.    *)
(* In this specification last[r] is the position of request r in the view: *)
(*   phase  "none", "claude" (line 872), "action" (887-939), "acting" (the *)
(*          handler is in its git part), "reclaude" (269, 459, 695),       *)
(*          "done" (942-948)                                               *)
(*   calls  advisory-service calls made for the message                    *)
(*   acts   the actions dispatched for the message, in order               *)
(*   out    how the view ended                                             *)
(***************************************************************************)
MaxMessages == 2     \* messages sent in one behaviour of SpecChat
MaxChatPushes == 1   \* publish_changes requests in one behaviour of SpecChat

ActionTypes == {"scrape", "create", "read", "edit", "delete", "list"}

\* what a reply of the advisory service can carry: no action block, a block
\* of a known action, or a block naming anything else
Replies == {"none", "other"} \cup ActionTypes

ChatIdle == [phase |-> "none", calls |-> 0, acts |-> <<>>, out |-> "none"]

InitChat ==
    /\ remote = InitialRemote
    /\ mirror \in {NoMirror, Clone(InitialRemote)}
    /\ git_lock = NoReq
    /\ pc = [r \in Req |-> "idle"]
    /\ loc = [r \in Req |-> IdleLoc]
    /\ nextId = 1
    /\ returned = {}
    /\ pushlog = [requests |-> 0, started |-> 0, done |-> 0,
                  commitSince |-> FALSE, delivered |-> FALSE]
    /\ drafts = <<>>
    /\ audit = <<>>
    /\ cache = EmptyCache
    /\ last = [r \in Req |-> ChatIdle]

\* the view moves on
Phase(r, phase, out) == last' = [last EXCEPT ![r].phase = phase, ![r].out = out]

\* the handler enters its git part: ensure_repo first, for a request of kind k
EnterGit(r, k) ==
    /\ pc' = [pc EXCEPT ![r] = "er_fetch"]
    /\ loc' = [loc EXCEPT ![r] = [IdleLoc EXCEPT !.kind = k]]

\* lines 838-869: a message arrives; the rate limit, a body that is not JSON
\* or an empty message end the view before any call
Send(r) ==
    /\ pc[r] = "idle"
    /\ last[r].phase = "none"
    /\ pushlog.requests < MaxMessages
    /\ pushlog' = [pushlog EXCEPT !.requests = @ + 1]
    /\ \E admitted \in BOOLEAN :
        last' = [last EXCEPT ![r] =
                    IF admitted THEN [ChatIdle EXCEPT !.phase = "claude"]
                    ELSE [ChatIdle EXCEPT !.phase = "done", !.out = "refused"]]
    /\ UNCHANGED <<remote, mirror, git_lock, pc, loc, nextId, returned, drafts, audit, cache>>

\* lines 871-888: call_claude returns a reply or raises
Advise(r) ==
    /\ last[r].phase = "claude"
    /\ \E reply \in Replies \cup {"raise"} :
        last' = [last EXCEPT ![r] =
                    CASE reply = "raise" ->
                            [@ EXCEPT !.calls = @ + 1, !.phase = "done", !.out = "apology"]
                      [] reply \in ActionTypes ->
                            [@ EXCEPT !.calls = @ + 1, !.phase = "action", !.acts = <<reply>>]
                      [] OTHER ->
                            [@ EXCEPT !.calls = @ + 1, !.phase = "done", !.out = "response"]]
    /\ UNCHANGED <<remote, mirror, git_lock, pc, loc, nextId, returned, pushlog,
                   drafts, audit, cache>>

\* lines 890-939 and 899, 918: the handler of the action dispatched last
\* starts.  It answers at once (no url or a failed scrape, a missing type or
\* slug, a denial, a validation error), or scrapes and goes on to its
\* advisory call, or enters its git part
Act(r) ==
    /\ last[r].phase = "action"
    /\ pc[r] = "idle"
    /\ LET a == last[r].acts[Len(last[r].acts)]
       IN  \E proceeds \in BOOLEAN :
            IF ~proceeds /\ a # "list"
            THEN Phase(r, "done", "response") /\ UNCHANGED <<pc, loc>>
            ELSE IF a = "scrape"
            THEN Phase(r, "reclaude", "none") /\ UNCHANGED <<pc, loc>>
            ELSE /\ Phase(r, "acting", "none")
                 /\ EnterGit(r, CASE a \in {"create", "edit"} -> "write"
                                  [] a = "delete" -> "delete"
                                  [] OTHER -> "read")
    /\ UNCHANGED <<remote, mirror, git_lock, nextId, returned, pushlog, drafts, audit, cache>>

\* the git part has returned or raised: a create, edit or delete handler
\* returns its text; a read that found the item and a list go on to their
\* advisory call (lines 436-459, 660-695)
Acted(r) ==
    /\ last[r].phase = "acting"
    /\ pc[r] = "idle"
    /\ LET a == last[r].acts[Len(last[r].acts)]
       IN  \E found \in BOOLEAN :
            IF a = "list" \/ (a = "read" /\ found)
            THEN Phase(r, "reclaude", "none")
            ELSE Phase(r, "done", "response")
    /\ UNCHANGED <<remote, mirror, git_lock, pc, loc, nextId, returned, pushlog,
                   drafts, audit, cache>>

\* a second call whose create, edit or delete block is dispatched whatever the
\* first action was
ReadviseDispatchesAny(r) ==
    /\ last[r].phase = "reclaude"
    /\ \E reply \in Replies \cup {"raise"} :
        last' = [last EXCEPT ![r] =
                    CASE reply = "raise" ->
                            [@ EXCEPT !.calls = @ + 1, !.phase = "done", !.out = "raised"]
                      [] reply \in {"create", "edit", "delete"} ->
                            [@ EXCEPT !.calls = @ + 1, !.phase = "action",
                                      !.acts = Append(@, reply)]
                      [] OTHER ->
                            [@ EXCEPT !.calls = @ + 1, !.phase = "done", !.out = "response"]]
    /\ UNCHANGED <<remote, mirror, git_lock, pc, loc, nextId, returned, pushlog,
                   drafts, audit, cache>>

\* lines 269, 459, 695: the second call_claude, outside any try block, and
\* lines 896-901, 915-920: after a scrape only a create is dispatched, after
\* a read only an edit, after a list nothing
Readvise(r) ==
    /\ last[r].phase = "reclaude"
    /\ \E reply \in Replies \cup {"raise"} :
        last' = [last EXCEPT ![r] =
                    CASE reply = "raise" ->
                            [@ EXCEPT !.calls = @ + 1, !.phase = "done", !.out = "raised"]
                      [] <<last[r].acts[1], reply>> \in {<<"scrape", "create">>,
                                                         <<"read", "edit">>} ->
                            [@ EXCEPT !.calls = @ + 1, !.phase = "action",
                                      !.acts = Append(@, reply)]
                      [] OTHER ->
                            [@ EXCEPT !.calls = @ + 1, !.phase = "done", !.out = "response"]]
    /\ UNCHANGED <<remote, mirror, git_lock, pc, loc, nextId, returned, pushlog,
                   drafts, audit, cache>>

\* lines 942-948: the view returns its JsonResponse (or, after the exception
\* of the second call, the server's error page)
Respond(r) ==
    /\ last[r].phase = "done"
    /\ last' = [last EXCEPT ![r].phase = "none"]
    /\ UNCHANGED <<remote, mirror, git_lock, pc, loc, nextId, returned, pushlog,
                   drafts, audit, cache>>

\* publish_changes calls push_to_remote
ChatPush(r) ==
    /\ pc[r] = "idle"
    /\ last[r].phase = "none"
    /\ pushlog.started < MaxChatPushes
    /\ pushlog' = [pushlog EXCEPT !.started = @ + 1]
    /\ pc' = [pc EXCEPT ![r] = "pr_wait"]
    /\ loc' = [loc EXCEPT ![r] = [IdleLoc EXCEPT !.kind = "push"]]
    /\ UNCHANGED <<remote, mirror, git_lock, nextId, returned, cmsVars>>

\* the steps of request r in the view
ViewStep(r) ==
    \/ Send(r)
    \/ Advise(r)
    \/ Act(r)
    \/ Acted(r)
    \/ Readvise(r)
    \/ Respond(r)
    \/ ChatPush(r)

\* the steps of request r inside git_service
GitStep(r) ==
    \/ ERFetch(r)
    \/ ERCheck(r)
    \/ ERSync(r)
    \/ FsOp(r)
    \/ CLAcquire(r)
    \/ CLStage(r)
    \/ CLCommit(r)
    \/ PRAcquire(r)
    \/ PRCount(r)
    \/ PRPush(r)
    \/ PRPull(r)
    \/ PRRetry(r)

NextChat == \E r \in Req : ViewStep(r) \/ GitStep(r)

SpecChat == InitChat /\ [][NextChat]_vars

\* every request keeps running: the server schedules its thread, the
\* advisory service answers or fails, and a git command ends by returning or
\* by raising
SpecChatFair == SpecChat /\ \A r \in Req : WF_vars(ViewStep(r) \/ GitStep(r))

(***************************************************************************)
(* The dispatcher: requests served one at a time, each handler one step.   *)
(***************************************************************************)
MaxCalls == 2         \* handler calls in one behaviour of SpecCms
MaxCreateCalls == 1   \* handler calls in one behaviour of SpecCreate

Slugs == {"a", "b"}

\* an intent: the action block the handler receives (action_data)
Intent(ct, slug, frontmatter, body, image) ==
    [content_type |-> ct, slug |-> slug, frontmatter |-> frontmatter, body |-> body,
     image |-> image, draft |-> 0]

NoIntent == Intent("", "", EmptyDict, <<>>, NoImage)

\* frontmatter of an article, of a local event, of a local news item
ArticleFm(slug) ==
    [k \in {"title", "slug", "category", "author", "pubDate"} |->
        CASE k = "title" -> Str("Budget")
          [] k = "slug" -> Str(slug)
          [] k = "category" -> Str("Article")
          [] k = "author" -> Str("Ann")
          [] k = "pubDate" -> Str("2024-01-15")]

EventFm(slug, group) ==
    [k \in {"title", "slug", "localGroup", "date", "tag", "location", "description"} |->
        CASE k = "title" -> Str("Meetup")
          [] k = "slug" -> Str(slug)
          [] k = "localGroup" -> Str(group)
          [] k = "date" -> Str("2024-06-01T19:00:00.000Z")
          [] k = "tag" -> Str("Lecture")
          [] k = "location" -> Str("Town Hall")
          [] k = "description" -> Str("Talk")]

LocalNewsFm(slug, group) ==
    [k \in {"heading", "slug", "text", "localGroup", "date"} |->
        CASE k = "heading" -> Str("Meeting")
          [] k = "slug" -> Str(slug)
          [] k = "text" -> Str("Notes")
          [] k = "localGroup" -> Str(group)
          [] k = "date" -> Str("2024-01-15")]

\* dict without key k
Without(d, k) == [j \in DOMAIN d \ {k} |-> d[j]]

CreateIntents ==
    {Intent("article", "", ArticleFm(sl), <<"One">>, img) : sl \in Slugs, img \in {NoImage, "png"}}
    \cup {Intent("article", "", Without(ArticleFm("b"), "category"), <<"One">>, NoImage)}
    \cup {Intent("article", "", Update(ArticleFm("b"), [k \in {"tags"} |-> Str("economics")]),
                 <<"One">>, NoImage)}
    \cup {Intent(ct, "", EventFm("a", g), <<"One">>, NoImage) :
            ct \in {"local_event"}, g \in {"oxford", "london"}}
    \cup {Intent(ct, "", LocalNewsFm("a", g), <<"One">>, NoImage) :
            ct \in {"local_news"}, g \in {"oxford", "london"}}

EditIntents ==
    {Intent("article", sl, fm, body, NoImage) :
        sl \in Slugs, body \in {<<>>, <<"Two">>},
        fm \in {EmptyDict,
                [k \in {"title"} |-> Str("Jobs")],
                [k \in {"slug"} |-> Str("b")]}}
    \cup {Intent("local_event", "a", fm, <<>>, NoImage) :
            fm \in {[k \in {"tag"} |-> Str("Workshop")],
                    [k \in {"localGroup"} |-> Str("london")]}}

DeleteIntents ==
    {Intent(ct, sl, EmptyDict, <<>>, NoImage) : ct \in {"article", "local_event"}, sl \in Slugs}

ReadIntents == {Intent("article", sl, EmptyDict, <<>>, NoImage) : sl \in Slugs}

ListIntents == {Intent(ct, "", EmptyDict, <<>>, NoImage) : ct \in {"article"}}

\* the article another author committed by hand: the file name is not the
\* slug, one key is outside the schema, no defaulted key is present
HandWritten ==
    [lines |-> <<[k |-> "title", scalar |-> [q |-> FALSE, s |-> "Jobs"]],
                 [k |-> "slug", scalar |-> [q |-> FALSE, s |-> "b"]],
                 [k |-> "category", scalar |-> [q |-> FALSE, s |-> "Article"]],
                 [k |-> "author", scalar |-> [q |-> FALSE, s |-> "Ann"]],
                 [k |-> "pubDate", scalar |-> [q |-> TRUE, s |-> "2024-01-15"]],
                 [k |-> "tags", scalar |-> [q |-> FALSE, s |-> "economics"]]>>,
     body |-> "Two\n"]

\* the repository the CMS is pointed at: one article, published through the CMS
CmsRemote ==
    <<[id |-> BaseId, gen |-> 0,
       set |-> [p \in {get_file_path("article", "a")} |->
                    generate_markdown("article", ArticleFm("a"), "One").markdown],
       del |-> {}]>>

\* the content files of directory dir in tree t that resolve to slug:
\* by the frontmatter slug or, lacking one, by the file name
Resolving(t, ct, slug) ==
    {p \in DOMAIN t :
        /\ p.dir = Directory(ct)
        /\ LET fm == parse_frontmatter(t[p]).frontmatter
           IN  IF Truthy(Get(fm, "slug", Str(""))) THEN fm["slug"] = Str(slug)
               ELSE p.stem = slug}

\* what other authors push: a hand-written article, or a new version of a.md
RemoteWrites ==
    {[p \in {[dir |-> ArticleDir, stem |-> "x"]} |-> HandWritten],
     [p \in {get_file_path("article", "a")} |->
        generate_markdown("article", Update(ArticleFm("a"), [k \in {"title"} |-> Str("Jobs")]),
                          "Two").markdown]}

NoCall == [op |-> "none", result |-> "", threw |-> "none", user |-> "", intent |-> NoIntent]

\* the state the handlers work on
State ==
    [m |-> mirror, c |-> cache, drafts |-> drafts, audit |-> audit, nextId |-> nextId,
     returned |-> returned]

\* a handler call op with outcome o is served
Serve(op, user, intent, o) ==
    /\ pushlog.requests < MaxCalls
    /\ pushlog' = [pushlog EXCEPT !.requests = @ + 1]
    /\ mirror' = o.s.m
    /\ cache' = o.s.c
    /\ drafts' = o.s.drafts
    /\ audit' = o.s.audit
    /\ nextId' = o.s.nextId
    /\ returned' = o.s.returned
    /\ last' = [op |-> op, result |-> o.result, threw |-> o.threw, user |-> user,
                 intent |-> intent]
    /\ UNCHANGED <<remote, git_lock, pc, loc>>

\* the process starts without a clone or with a fresh one; with a clone, the
\* article list may have been cached by a request served within CACHE_TTL
InitCms ==
    /\ remote = CmsRemote
    /\ mirror \in {NoMirror, Clone(CmsRemote)}
    /\ git_lock = NoReq
    /\ pc = [r \in Req |-> "idle"]
    /\ loc = [r \in Req |-> IdleLoc]
    /\ nextId = 1
    /\ returned = {}
    /\ pushlog = [requests |-> 0, started |-> 0, done |-> 0,
                  commitSince |-> FALSE, delivered |-> FALSE]
    /\ drafts = <<>>
    /\ audit = <<>>
    /\ cache \in {EmptyCache} \cup
                 {CacheSet(EmptyCache, cache_key("list", ct, ""), Scan(mirror, ct)) :
                    ct \in IF mirror.exists THEN {"article"} ELSE {}}
    /\ last = NoCall

Create ==
    \E u \in Users, intent \in CreateIntents, fail \in Faults :
        Serve("create", u.name, intent, handle_content_action(State, remote, u, intent, fail))

\* the edit intents carry no image, and the handler saves one ContentDraft row
Edit ==
    \E u \in Users, intent \in EditIntents, fail \in Faults \ {"image", "db"} :
        Serve("edit", u.name, intent, handle_edit_action(State, remote, u, intent, fail))

\* a delete writes no image and no ContentDraft row
Delete ==
    \E u \in Users, intent \in DeleteIntents, fail \in Faults \ {"image", "draft", "db"} :
        Serve("delete", u.name, intent, handle_delete_action(State, remote, u, intent, fail))

Approve ==
    \E u \in Users, i \in 1..Len(drafts), fail \in Faults :
        Serve("approve", u.name, [NoIntent EXCEPT !.draft = i],
              approve_draft(State, remote, u, [NoIntent EXCEPT !.draft = i], fail))

Read ==
    \E intent \in ReadIntents, fail \in {"none", "ensure"} :
        Serve("read", "", intent, handle_read_action(State, remote, intent, fail))

List ==
    \E intent \in ListIntents, fail \in {"none", "ensure"} :
        Serve("list", "", intent, handle_list_action(State, remote, intent, fail))

\* a cache entry reaches its timeout (CACHE_TTL)
Expire ==
    /\ \E k \in DOMAIN cache : cache' = [j \in DOMAIN cache \ {k} |-> cache[j]]
    /\ UNCHANGED <<remote, mirror, git_lock, pc, loc, nextId, returned, pushlog,
                   drafts, audit, last>>

\* another author pushes a commit to the remote
RemoteAuthor ==
    /\ RemoteUpdates(remote) < MaxRemoteUpdates
    /\ \E w \in RemoteWrites :
        remote' = Append(remote, [id |-> BaseId + RemoteUpdates(remote) + 1, gen |-> 0,
                                  set |-> w, del |-> {}])
    /\ UNCHANGED <<mirror, git_lock, pc, loc, nextId, returned, pushlog, cmsVars>>

NextCms ==
    \/ Create
    \/ Edit
    \/ Delete
    \/ Approve
    \/ Read
    \/ List
    \/ Expire
    \/ RemoteAuthor

SpecCms == InitCms /\ [][NextCms]_vars

\* the create handler alone, beside the other authors of the remote
NextCreate ==
    \/ pushlog.requests < MaxCreateCalls /\ Create
    \/ RemoteAuthor

SpecCreate == InitCms /\ [][NextCreate]_vars

(***************************************************************************)
(* chat/views.py: the review of submitted drafts.  The process has served  *)
(* one or two creates; then reviewers approve, reject and list the         *)
(* ContentDraft rows, a staff user edits a row in the admin site, and      *)
(* other authors push to the remote.                                       *)
(***************************************************************************)
MaxReviews == 1       \* review calls in one behaviour of SpecReview

UserNamed(n) == CHOOSE u \in Users : u.name = n

\* the creates served before the review starts
Submissions ==
    {[u |-> "co", intent |-> Intent("article", "", ArticleFm("b"), <<"One">>, "png"),
      fail |-> "none"],
     [u |-> "co", intent |-> Intent("local_event", "", EventFm("a", "oxford"), <<"One">>, NoImage),
      fail |-> "none"],
     [u |-> "gl", intent |-> Intent("local_event", "", EventFm("a", "london"), <<"One">>, NoImage),
      fail |-> "none"],
     [u |-> "ed", intent |-> Intent("article", "", ArticleFm("b"), <<"One">>, "png"),
      fail |-> "commit"],
     [u |-> "ed", intent |-> Intent("article", "", ArticleFm("b"), <<"One">>, NoImage),
      fail |-> "none"]}

Submit(s0, c) == handle_content_action(s0, CmsRemote, UserNamed(c.u), c.intent, c.fail).s

FreshStates ==
    {[m |-> m0, c |-> EmptyCache, drafts |-> <<>>, audit |-> <<>>, nextId |-> 1,
      returned |-> {}] : m0 \in {NoMirror, Clone(CmsRemote)}}

SubmittedStates ==
    LET once == {Submit(s0, c) : s0 \in FreshStates, c \in Submissions}
    IN  once \cup {Submit(s1, c) : s1 \in once, c \in Submissions}

InitReview ==
    /\ remote = CmsRemote
    /\ git_lock = NoReq
    /\ pc = [r \in Req |-> "idle"]
    /\ loc = [r \in Req |-> IdleLoc]
    /\ pushlog = [requests |-> 0, started |-> 0, done |-> 0,
                  commitSince |-> FALSE, delivered |-> FALSE]
    /\ last = NoCall
    /\ \E s0 \in SubmittedStates :
            /\ mirror = s0.m
            /\ cache = s0.c
            /\ drafts = s0.drafts
            /\ audit = s0.audit
            /\ nextId = s0.nextId
            /\ returned = s0.returned

ReviewIntent(i, feedback) ==
    [content_type |-> "", slug |-> "", frontmatter |-> EmptyDict, body |-> <<>>,
     image |-> NoImage, draft |-> i, feedback |-> feedback]

ReviewApprove == pushlog.requests < MaxReviews /\ Approve

Reject ==
    /\ pushlog.requests < MaxReviews
    /\ \E u \in Users, i \in 1..Len(drafts), feedback \in {"", "shorter"},
          fail \in {"none", "draft"} :
            Serve("reject", u.name, ReviewIntent(i, feedback),
                  reject_draft(State, u, ReviewIntent(i, feedback), feedback, fail))

PendingList ==
    /\ pushlog.requests < MaxReviews
    /\ \E u \in Users :
            Serve("pending_list", u.name, NoIntent,
                  Out(pending_list(drafts, u), "none", State, NoSha, <<>>))

\* review_changes: get_unpushed_changes() fetches, then the rows are listed
ReviewChanges ==
    /\ pushlog.requests < MaxReviews
    /\ \E u \in Users, net \in BOOLEAN :
            Serve("review_changes", u.name, NoIntent,
                  Out(review_changes(drafts, u), "none",
                      [State EXCEPT !.m = IF mirror.exists /\ net THEN Fetch(mirror, remote)
                                          ELSE mirror],
                      NoSha, <<>>))

\* ContentDraftAdmin: the change form of the admin site saves a pending row
\* with one key taken out of frontmatter_json
AdminEdit ==
    /\ \E i \in 1..Len(drafts) :
        \E k \in DOMAIN drafts[i].frontmatter_json \cap {"category", "tag"} :
            /\ drafts[i].status = "pending"
            /\ drafts' = [drafts EXCEPT ![i].frontmatter_json = Without(@, k)]
    /\ UNCHANGED <<remote, mirror, git_lock, pc, loc, nextId, returned, pushlog,
                   audit, cache, last>>

NextReview ==
    \/ ReviewApprove
    \/ Reject
    \/ PendingList
    \/ ReviewChanges
    \/ AdminEdit
    \/ RemoteAuthor

SpecReview == InitReview /\ [][NextReview]_vars

(***************************************************************************)
(* chat/views.py: approve_draft and reject_draft served to two requests at *)
(* once.  Neither view runs in a transaction or locks the row: a request   *)
(* loads the row (get_object_or_404), works on its copy, and draft.save()  *)
(* writes every column of the copy back.                                   *)
(***************************************************************************)
MaxRaceCalls == 2     \* review calls in one behaviour of SpecRace

\* the call of request r ends with this result
Answered(r, kind, user, i, result, threw) ==
    /\ pc' = [pc EXCEPT ![r] = "idle"]
    /\ loc' = [loc EXCEPT ![r] = IdleLoc]
    /\ last' = [op |-> kind, result |-> result, threw |-> threw, user |-> user,
                 intent |-> ReviewIntent(i, "")]

\* views.py 998-1011 and 1052-1059: load the pending row, check the reviewer,
\* and for an approve generate the markdown
RvGet(r) ==
    /\ pc[r] = "idle"
    /\ pushlog.requests < MaxRaceCalls
    /\ pushlog' = [pushlog EXCEPT !.requests = @ + 1]
    /\ \E kind \in {"approve", "reject"}, u \in Users, i \in 1..Len(drafts) :
        LET row == drafts[i]
            local_group == Get(row.frontmatter_json, "localGroup", Str(""))
            Generated(gen) ==
                IF kind = "approve" /\ gen.errors # {}
                THEN Answered(r, kind, u.name, i, "invalid", "none")
                ELSE /\ pc' = [pc EXCEPT ![r] = IF kind = "approve" THEN "rv_publish"
                                                                   ELSE "rv_save"]
                     /\ loc' = [loc EXCEPT ![r] =
                                    [kind |-> kind, user |-> u.name, draft |-> i, row |-> row,
                                     markdown |-> gen.markdown, sha |-> NoSha]]
                     /\ UNCHANGED last
        IN  IF row.status # "pending" THEN Answered(r, kind, u.name, i, "notfound", "none")
            ELSE IF ~can_approve(u, row.content_type, local_group)
                 THEN Answered(r, kind, u.name, i, "denied", "none")
            ELSE Generated(generate_markdown(row.content_type, row.frontmatter_json,
                                             row.body_markdown))
    /\ UNCHANGED <<remote, mirror, git_lock, nextId, returned, drafts, audit, cache>>

\* views.py 1020-1033: ensure_repo, the writes, commit_locally
RvPublish(r) ==
    /\ pc[r] = "rv_publish"
    /\ \E fail \in {"none", "ensure", "commit"} :
        LET row == loc[r].row
            Done(s2, pub) ==
                /\ mirror' = s2.m
                /\ nextId' = s2.nextId
                /\ returned' = s2.returned
                /\ IF pub.threw # "none"
                   THEN Answered(r, "approve", loc[r].user, loc[r].draft, "error", pub.threw)
                   ELSE /\ pc' = [pc EXCEPT ![r] = "rv_save"]
                        /\ loc' = [loc EXCEPT ![r].sha = pub.sha]
                        /\ UNCHANGED last
            Attempted(pub) == Done(AfterPublish(State, pub), pub)
        IN  Attempted(publish_files(mirror, remote, get_file_path(row.content_type, row.slug),
                                    loc[r].markdown, row.image_data, row.image_path,
                                    nextId, fail))
    /\ UNCHANGED <<remote, git_lock, pushlog, drafts, audit, cache>>

\* a save that writes only the fields the view has set, onto the stored row
RvSaveFields(r) ==
    /\ pc[r] = "rv_save"
    /\ LET row == drafts[loc[r].draft]
           saved == IF loc[r].kind = "approve"
                    THEN [row EXCEPT !.status = "approved", !.reviewer = loc[r].user,
                                     !.reviewed_at = Now, !.git_commit_sha = loc[r].sha]
                    ELSE [row EXCEPT !.status = "rejected", !.reviewer = loc[r].user,
                                     !.reviewed_at = Now, !.review_feedback = "shorter"]
       IN  /\ drafts' = [drafts EXCEPT ![loc[r].draft] = saved]
           /\ Answered(r, loc[r].kind, loc[r].user, loc[r].draft, saved.status, "none")
    /\ UNCHANGED <<remote, mirror, git_lock, nextId, returned, pushlog, audit, cache>>

\* views.py 1035-1039 and 1061-1065: the fields set on the loaded copy, and
\* draft.save() writing the copy
RvSave(r) ==
    /\ pc[r] = "rv_save"
    /\ LET row == loc[r].row
           saved == IF loc[r].kind = "approve"
                    THEN [row EXCEPT !.status = "approved", !.reviewer = loc[r].user,
                                     !.reviewed_at = Now, !.git_commit_sha = loc[r].sha]
                    ELSE [row EXCEPT !.status = "rejected", !.reviewer = loc[r].user,
                                     !.reviewed_at = Now, !.review_feedback = "shorter"]
       IN  /\ drafts' = [drafts EXCEPT ![loc[r].draft] = saved]
           /\ Answered(r, loc[r].kind, loc[r].user, loc[r].draft, saved.status, "none")
    /\ UNCHANGED <<remote, mirror, git_lock, nextId, returned, pushlog, audit, cache>>

NextRace == \E r \in Req : RvGet(r) \/ RvPublish(r) \/ RvSave(r)

SpecRace == InitReview /\ [][NextRace]_vars

(***************************************************************************)
(* chat/views.py: the content browser.  Its views act on the item named in *)
(* the URL (quick_edit, toggle_featured, delete_content) or on the items   *)
(* listed in the request body (bulk_action).                               *)
(***************************************************************************)
MaxBrowserCalls == 1  \* view and handler calls in one behaviour of SpecBrowser

\* lines 1277-1283: a form field, 'true' and 'false' turned into booleans
form_value(value) ==
    IF value.v \in {"true", "false"} THEN Bool(value.v) ELSE value

\* lines 1273-1283: the stored keys, each overridden by its fm_ form field
form_merge(existing_fm, post) ==
    [k \in DOMAIN existing_fm |->
        IF k \in DOMAIN post THEN form_value(post[k]) ELSE existing_fm[k]]

\* quick_edit(request, content_type, slug); intent.frontmatter holds the fm_
\* fields of request.POST and intent.body its body field, if any
quick_edit(s, rem, u, intent, fail) ==
    LET ct == intent.content_type
        slug == intent.slug
        file_path == get_file_path(ct, slug)
        Recorded(rd, s2, pub) ==
            IF pub.threw # "none" THEN Out("error", pub.threw, s2, NoSha, rd.r)
            ELSE Out("edited", "none",
                     [log_audit(s2, AuditEntry(ct, slug, "edit", u, pub.sha), fail)
                         EXCEPT !.c = invalidate_cache(s2.c)],
                     pub.sha, rd.r)
        Attempted(rd, s1, pub) == Recorded(rd, AfterPublish(s1, pub), pub)
        Generated(rd, s1, gen) ==
            IF gen.errors # {} THEN Out("invalid", "none", s1, NoSha, rd.r)
            ELSE Attempted(rd, s1, publish_files(s1.m, rem, file_path, gen.markdown, NoImage,
                                                 NoPath, s.nextId, fail))
        Existing(rd, s1) ==
            IF rd.r = <<>> THEN Out("notfound", "none", s1, NoSha, <<>>)
            ELSE Generated(rd, s1,
                           generate_markdown(ct, form_merge(rd.r[1].frontmatter,
                                                            intent.frontmatter),
                                             IF intent.body # <<>> THEN intent.body[1]
                                             ELSE rd.r[1].body))
        Looked(rd) == Existing(rd, [s EXCEPT !.m = rd.w.m, !.c = rd.w.c])
    IN  IF ~can_edit(u, ct, Str("")) THEN Out("denied", "none", s, NoSha, <<>>)
        ELSE Looked(read_content([m |-> s.m, c |-> s.c], ct, slug, rem, fail # "ensure"))

\* toggle_featured(request, content_type, slug)
toggle_featured(s, rem, u, intent, fail) ==
    LET ct == intent.content_type
        slug == intent.slug
        file_path == get_file_path(ct, slug)
        Recorded(rd, s2, pub) ==
            IF pub.threw # "none" THEN Out("error", pub.threw, s2, NoSha, rd.r)
            ELSE Out("edited", "none",
                     [log_audit(s2, [AuditEntry(ct, slug, "edit", u, pub.sha)
                                        EXCEPT !.changes_summary = "featured"], fail)
                         EXCEPT !.c = invalidate_cache(s2.c)],
                     pub.sha, rd.r)
        Attempted(rd, s1, pub) == Recorded(rd, AfterPublish(s1, pub), pub)
        Generated(rd, s1, gen) ==
            IF gen.errors # {} THEN Out("invalid", "none", s1, NoSha, rd.r)
            ELSE Attempted(rd, s1, publish_files(s1.m, rem, file_path, gen.markdown, NoImage,
                                                 NoPath, s.nextId, fail))
        Toggled(rd, s1, fm) ==
            Generated(rd, s1,
                      generate_markdown(ct,
                          Update(fm, [k \in {"featured"} |->
                                        IF Truthy(Get(fm, "featured", Bool("false")))
                                        THEN Bool("false") ELSE Bool("true")]),
                          rd.r[1].body))
        Existing(rd, s1) ==
            IF rd.r = <<>> THEN Out("notfound", "none", s1, NoSha, <<>>)
            ELSE Toggled(rd, s1, rd.r[1].frontmatter)
        Looked(rd) == Existing(rd, [s EXCEPT !.m = rd.w.m, !.c = rd.w.c])
    IN  IF ~can_edit(u, ct, Str("")) THEN Out("denied", "none", s, NoSha, <<>>)
        ELSE Looked(read_content([m |-> s.m, c |-> s.c], ct, slug, rem, fail # "ensure"))

\* delete_content(request, content_type, slug)
delete_content(s, rem, u, intent, fail) ==
    LET ct == intent.content_type
        slug == intent.slug
        file_path == get_file_path(ct, slug)
        Recorded(rd, s2, pub) ==
            IF pub.threw # "none" THEN Out("error", pub.threw, s2, NoSha, rd.r)
            ELSE Out("deleted", "none",
                     [log_audit(s2, AuditEntry(ct, slug, "delete", u, pub.sha), fail)
                         EXCEPT !.c = invalidate_cache(s2.c)],
                     pub.sha, rd.r)
        Attempted(rd, s1, pub) == Recorded(rd, AfterPublish(s1, pub), pub)
        Committed(rd, s1, m2, cl) ==
            Attempted(rd, s1,
                      IF cl.raised THEN [threw |-> "commit", m |-> cl.m, sha |-> NoSha]
                      ELSE IF fail = "commit"
                           THEN [threw |-> "commit", m |-> Stage(m2, {file_path}),
                                 sha |-> NoSha]
                      ELSE [threw |-> "none", m |-> cl.m, sha |-> cl.sha])
        Deleted(rd, s1, m2) == Committed(rd, s1, m2, commit_locally(m2, {file_path}, s.nextId))
        Ensured(rd, s1, e) ==
            IF e.raised
            THEN Attempted(rd, s1, [threw |-> "ensure", m |-> e.m, sha |-> NoSha])
            ELSE IF ~FileExists(e.m, file_path)
                 THEN Out("absent", "none", [s1 EXCEPT !.m = e.m], NoSha, rd.r)
            ELSE IF fail = "write"
                 THEN Attempted(rd, s1, [threw |-> "write", m |-> e.m, sha |-> NoSha])
            ELSE Deleted(rd, s1, delete_file_from_repo(e.m, file_path))
        Existing(rd, s1) ==
            IF rd.r = <<>> THEN Out("notfound", "none", s1, NoSha, <<>>)
            ELSE Ensured(rd, s1, ensure_repo(s1.m, rem, fail # "ensure"))
        Looked(rd) == Existing(rd, [s EXCEPT !.m = rd.w.m, !.c = rd.w.c])
    IN  IF ~can_delete(u, ct) THEN Out("denied", "none", s, NoSha, <<>>)
        ELSE Looked(read_content([m |-> s.m, c |-> s.c], ct, slug, rem, fail # "ensure"))

\* lines 1627-1722: one round of the loop of bulk_action, for the item ref;
\* ok tells whether the round counted a success
bulk_item(s, rem, u, action, ref, fail) ==
    LET ct == ref.content_type
        slug == ref.slug
        file_path == get_file_path(ct, slug)
        Counted(s2, pub) == [s |-> s2, ok |-> pub.threw = "none"]
        \* lines 1660-1661: the audit row of a delete carries no commit id
        Logged(s2, pub) ==
            Counted(IF action = "delete" /\ pub.threw = "none"
                    THEN log_audit(s2, AuditEntry(ct, slug, "delete", u, NoSha), fail)
                    ELSE s2, pub)
        Attempted(s1, pub) == Logged(AfterPublish(s1, pub), pub)
        Committed(s1, m2, cl) ==
            Attempted(s1,
                      IF cl.raised THEN [threw |-> "commit", m |-> cl.m, sha |-> NoSha]
                      ELSE IF fail = "commit"
                           THEN [threw |-> "commit", m |-> Stage(m2, {file_path}),
                                 sha |-> NoSha]
                      ELSE [threw |-> "none", m |-> cl.m, sha |-> cl.sha])
        \* lines 1652-1658: the result of delete_file_from_repo is not looked at
        Removed(s1, e) ==
            IF e.raised THEN Attempted(s1, [threw |-> "ensure", m |-> e.m, sha |-> NoSha])
            ELSE IF fail = "write" /\ FileExists(e.m, file_path)
                 THEN Attempted(s1, [threw |-> "write", m |-> e.m, sha |-> NoSha])
            ELSE Committed(s1, delete_file_from_repo(e.m, file_path),
                           commit_locally(delete_file_from_repo(e.m, file_path),
                                          {file_path}, s1.nextId))
        Flagged(s1, gen) ==
            IF gen.errors # {} THEN [s |-> s1, ok |-> FALSE]
            ELSE Attempted(s1, publish_files(s1.m, rem, file_path, gen.markdown, NoImage,
                                             NoPath, s1.nextId, fail))
        Existing(rd, s1) ==
            IF rd.r = <<>> THEN [s |-> s1, ok |-> FALSE]
            ELSE IF action = "delete"
                 THEN Removed(s1, ensure_repo(s1.m, rem, fail # "ensure"))
            ELSE IF action \in {"set_draft", "unset_draft"}
                 THEN Flagged(s1, generate_markdown(ct,
                                    Update(rd.r[1].frontmatter,
                                           [k \in {"draft"} |->
                                              Bool(IF action = "set_draft" THEN "true"
                                                   ELSE "false")]),
                                    rd.r[1].body))
            ELSE [s |-> s1, ok |-> FALSE]
        Looked(rd) == Existing(rd, [s EXCEPT !.m = rd.w.m, !.c = rd.w.c])
    IN  IF ct = "" \/ slug = "" THEN [s |-> s, ok |-> FALSE]
        ELSE IF action \notin {"delete", "set_draft", "unset_draft"}
             THEN [s |-> s, ok |-> FALSE]
        ELSE Looked(read_content([m |-> s.m, c |-> s.c], ct, slug, rem, fail # "ensure"))

\* lines 1627-1722: the loop over the items, counting the successes
RECURSIVE bulk_items(_, _, _, _, _, _)
bulk_items(s, rem, u, action, items, fail) ==
    LET Rest(step, r) == [s |-> r.s, success |-> r.success + IF step.ok THEN 1 ELSE 0]
        Next1(step) == Rest(step, bulk_items(step.s, rem, u, action, Tail(items), fail))
    IN  IF items = <<>> THEN [s |-> s, success |-> 0]
        ELSE Next1(bulk_item(s, rem, u, action, Head(items), fail))

\* bulk_action(request), for the request body req = [action, items]
bulk_action(s, rem, u, req, fail) ==
    LET Answer2(status, s2, n) ==
            Out([status |-> status, success |-> n], "none", s2, NoSha, <<>>)
        Looped(r) == Answer2("done", [r.s EXCEPT !.c = invalidate_cache(@)], r.success)
    IN  IF u.role \notin {"admin", "editor"} THEN Answer2("denied", s, 0)
        ELSE IF req.items = <<>> THEN Answer2("noitems", s, 0)
        ELSE Looped(bulk_items(s, rem, u, req.action, req.items, fail))

\* the forms, items and request bodies the browser sends
QuickEdits ==
    {Intent("article", sl, fm, body, NoImage) :
        sl \in Slugs, body \in {<<>>, <<"Two">>},
        fm \in {EmptyDict, [k \in {"title"} |-> Str("Jobs")],
                [k \in {"featured"} |-> Str("true")]}}
    \cup {Intent("local_event", "a", [k \in {"tag"} |-> Str("Workshop")], <<>>, NoImage)}

ItemRefs ==
    {Intent("article", sl, EmptyDict, <<>>, NoImage) : sl \in Slugs}
    \cup {Intent("local_event", "a", EmptyDict, <<>>, NoImage)}

BulkRequests ==
    {[action |-> action, items |-> items] :
        action \in {"delete", "set_draft", "unset_draft"},
        items \in {<<>>} \cup {<<x>> : x \in ItemRefs}
                  \cup {<<x, y>> : <<x, y>> \in {z \in ItemRefs \X ItemRefs : z[1] # z[2]}}}

\* the process has served nothing, or one create of a london event by the editor
BrowserStates ==
    FreshStates \cup
    {Submit(s0, [u |-> "ed", fail |-> "none",
                 intent |-> Intent("local_event", "", EventFm("a", "london"), <<"One">>,
                                   NoImage)]) : s0 \in FreshStates}

InitBrowser ==
    /\ remote = CmsRemote
    /\ git_lock = NoReq
    /\ pc = [r \in Req |-> "idle"]
    /\ loc = [r \in Req |-> IdleLoc]
    /\ pushlog = [requests |-> 0, started |-> 0, done |-> 0,
                  commitSince |-> FALSE, delivered |-> FALSE]
    /\ last = NoCall
    /\ \E s0 \in BrowserStates :
            /\ mirror = s0.m
            /\ cache = s0.c
            /\ drafts = s0.drafts
            /\ audit = s0.audit
            /\ nextId = s0.nextId
            /\ returned = s0.returned

QuickEdit ==
    \E u \in Users, intent \in QuickEdits, fail \in {"none", "ensure", "write", "commit", "audit"} :
        Serve("quick_edit", u.name, intent, quick_edit(State, remote, u, intent, fail))

ToggleFeatured ==
    \E u \in Users, intent \in ItemRefs, fail \in {"none", "ensure", "write", "commit", "audit"} :
        Serve("toggle_featured", u.name, intent,
              toggle_featured(State, remote, u, intent, fail))

DeleteContent ==
    \E u \in Users, intent \in ItemRefs, fail \in {"none", "ensure", "write", "commit", "audit"} :
        Serve("delete_content", u.name, intent,
              delete_content(State, remote, u, intent, fail))

BulkAction ==
    \E u \in Users, req \in BulkRequests, fail \in {"none", "ensure", "write", "commit", "audit"} :
        Serve("bulk_action", u.name, req, bulk_action(State, remote, u, req, fail))

\* chat/admin.py 30-34: ContentAuditLog is registered with the admin site and
\* only id is read-only, so the change form saves any other field of a row
AdminChangeAudit ==
    /\ \E i \in 1..Len(audit) :
            audit' = [audit EXCEPT ![i].changes_summary = "corrected"]
    /\ UNCHANGED <<remote, mirror, git_lock, pc, loc, nextId, returned, pushlog,
                   drafts, cache, last>>

\* and the delete page of the admin site removes a row
AdminDeleteAudit ==
    /\ \E i \in 1..Len(audit) :
            audit' = SubSeq(audit, 1, i - 1) \o SubSeq(audit, i + 1, Len(audit))
    /\ UNCHANGED <<remote, mirror, git_lock, pc, loc, nextId, returned, pushlog,
                   drafts, cache, last>>

NextBrowser ==
    \/ pushlog.requests < MaxBrowserCalls /\ QuickEdit
    \/ pushlog.requests < MaxBrowserCalls /\ ToggleFeatured
    \/ pushlog.requests < MaxBrowserCalls /\ DeleteContent
    \/ pushlog.requests < MaxBrowserCalls /\ BulkAction
    \/ pushlog.requests < MaxBrowserCalls /\ Delete
    \/ pushlog.requests < MaxBrowserCalls /\ Edit
    \/ AdminChangeAudit
    \/ AdminDeleteAudit
    \/ Expire
    \/ RemoteAuthor

SpecBrowser == InitBrowser /\ [][NextBrowser]_vars

(***************************************************************************)
(* chat/views.py _check_rate_limit and the messages it admits.  The count  *)
(* of a user lives in the cache the content reader uses, under the key     *)
(* chat_rate_<user id>; cache.get (230) and cache.set (233) are two calls  *)
(* other requests can run between.  In this specification loc[r] is        *)
(* [user, count]: the sender of request r and the count it read, and       *)
(* pushlog carries sent (messages submitted) and admitted (per user, the   *)
(* messages let through since the user's last quiet hour).                 *)
(***************************************************************************)
CHAT_RATE_LIMIT == 2   \* settings.CHAT_RATE_LIMIT
MaxRateMessages == 3   \* messages submitted in one behaviour of SpecRate

\* the users who send messages
RateSenders == {u \in Users : u.role \in {"editor", "contributor"}}

\* f'chat_rate_{user.id}'
rate_key(user) == [name |-> "chat_rate", ct |-> "", slug |-> user]

\* cache.get(key, default)
CacheGet(c, key, default) == IF key \in DOMAIN c THEN c[key] ELSE default

InitRate ==
    /\ remote = CmsRemote
    /\ mirror = Clone(CmsRemote)
    /\ git_lock = NoReq
    /\ pc = [r \in Req |-> "idle"]
    /\ loc = [r \in Req |-> [user |-> "", count |-> 0]]
    /\ nextId = 1
    /\ returned = {}
    /\ pushlog = [requests |-> 0, started |-> 0, done |-> 0,
                  commitSince |-> FALSE, delivered |-> FALSE,
                  sent |-> 0, admitted |-> [n \in {u.name : u \in RateSenders} |-> 0]]
    /\ drafts = <<>>
    /\ audit = <<>>
    /\ cache = EmptyCache
    /\ last = NoCall

\* send_message reaches _check_rate_limit: lines 229-230
RateGet(r) ==
    /\ pc[r] = "idle"
    /\ pushlog.sent < MaxRateMessages
    /\ \E u \in RateSenders :
        loc' = [loc EXCEPT ![r] = [user |-> u.name,
                                   count |-> CacheGet(cache, rate_key(u.name), 0)]]
    /\ pc' = [pc EXCEPT ![r] = "rl_check"]
    /\ pushlog' = [pushlog EXCEPT !.sent = @ + 1]
    /\ UNCHANGED <<remote, mirror, git_lock, nextId, returned, cmsVars>>

\* lines 231-234, and the 429 of send_message (844-848)
RateSet(r) ==
    /\ pc[r] = "rl_check"
    /\ IF loc[r].count >= CHAT_RATE_LIMIT
       THEN /\ pc' = [pc EXCEPT ![r] = "idle"]
            /\ UNCHANGED <<cache, pushlog>>
       ELSE /\ cache' = CacheSet(cache, rate_key(loc[r].user), loc[r].count + 1)
            /\ pc' = [pc EXCEPT ![r] = "view"]
            /\ pushlog' = [pushlog EXCEPT !.admitted[loc[r].user] = @ + 1]
    /\ UNCHANGED <<remote, mirror, git_lock, loc, nextId, returned, drafts, audit, last>>

\* send_message 850-948 when the reply carries no action block
RateReply(r) ==
    /\ pc[r] = "view"
    /\ pc' = [pc EXCEPT ![r] = "idle"]
    /\ UNCHANGED <<remote, mirror, git_lock, loc, nextId, returned, pushlog, cmsVars>>

\* send_message 850-948 when the reply carries a delete block (929-934)
RateDelete(r) ==
    /\ pc[r] = "view"
    /\ \E intent \in {i \in DeleteIntents : i.content_type = "article"} :
        LET o == handle_delete_action(State, remote, UserNamed(loc[r].user), intent, "none")
        IN  /\ mirror' = o.s.m
            /\ cache' = o.s.c
            /\ drafts' = o.s.drafts
            /\ audit' = o.s.audit
            /\ nextId' = o.s.nextId
            /\ returned' = o.s.returned
            /\ last' = [op |-> "delete", result |-> o.result, threw |-> o.threw,
                        user |-> loc[r].user, intent |-> intent]
    /\ pc' = [pc EXCEPT ![r] = "idle"]
    /\ UNCHANGED <<remote, git_lock, loc, pushlog>>

\* an hour passes in which user n submits nothing: the key set with
\* timeout=3600 (line 233) is gone, and no message of n is less than an hour old
QuietHour(n) ==
    /\ pushlog.admitted[n] > 0
    /\ \A r \in Req : pc[r] # "idle" => loc[r].user # n
    /\ cache' = [k \in DOMAIN cache \ {rate_key(n)} |-> cache[k]]
    /\ pushlog' = [pushlog EXCEPT !.admitted[n] = 0]
    /\ UNCHANGED <<remote, mirror, git_lock, pc, loc, nextId, returned, drafts, audit, last>>

NextRate ==
    \/ \E r \in Req : RateGet(r)
    \/ \E r \in Req : RateSet(r)
    \/ \E r \in Req : RateReply(r)
    \/ \E r \in Req : RateDelete(r)
    \/ \E n \in {u.name : u \in RateSenders} : QuietHour(n)
    \/ pushlog.requests < MaxBrowserCalls /\ DeleteContent

SpecRate == InitRate /\ [][NextRate]_vars

(***************************************************************************)
(* accounts/models.py: the capability questions asked of one profile.     *)
(* The state holds a UserProfile, a content type and a target group; each  *)
(* action asks one of the five methods and records the answer in last.     *)
(***************************************************************************)
Roles == {"admin", "editor", "group_lead", "contributor"}

\* UserProfile rows: role from ROLE_CHOICES, local_group blank or one of
\* LOCAL_GROUP_CHOICES, never blank for a group lead
Profiles ==
    {[name |-> "p", role |-> r, local_group |-> g] : r \in Roles \ {"group_lead"},
                                                     g \in LocalGroups \cup {""}}
    \cup {[name |-> "p", role |-> "group_lead", local_group |-> g] : g \in LocalGroups}

\* the local_group argument: a group, '' or None
TargetGroups == {Str(g) : g \in LocalGroups} \cup {Str(""), NoneValue}

InitPolicy ==
    /\ remote = CmsRemote
    /\ mirror = NoMirror
    /\ git_lock = NoReq
    /\ pc = [r \in Req |-> "idle"]
    /\ loc = [r \in Req |-> IdleLoc]
    /\ nextId = 1
    /\ returned = {}
    /\ pushlog = [requests |-> 0, started |-> 0, done |-> 0,
                  commitSince |-> FALSE, delivered |-> FALSE]
    /\ drafts = <<>>
    /\ audit = <<>>
    /\ cache = EmptyCache
    /\ \E u \in Profiles, ct \in ContentTypes, g \in TargetGroups :
            last = [op |-> "profile", result |-> "", threw |-> "", user |-> u,
                    intent |-> [content_type |-> ct, local_group |-> g]]

\* one method of the profile is called and its return value recorded
Answer(method, value) ==
    /\ last.op = "profile"
    /\ last' = [last EXCEPT !.op = method, !.result = value]
    /\ UNCHANGED <<remote, mirror, git_lock, pc, loc, nextId, returned, pushlog,
                   drafts, audit, cache>>

AskPublish ==
    Answer("can_publish_directly",
           can_publish_directly(last.user, last.intent.content_type, last.intent.local_group))

AskCreate ==
    Answer("can_create",
           can_create(last.user, last.intent.content_type, last.intent.local_group))

AskApprove ==
    Answer("can_approve",
           can_approve(last.user, last.intent.content_type, last.intent.local_group))

AskEdit ==
    Answer("can_edit",
           can_edit(last.user, last.intent.content_type, last.intent.local_group))

AskDelete ==
    Answer("can_delete", can_delete(last.user, last.intent.content_type))

NextPolicy == AskPublish \/ AskCreate \/ AskApprove \/ AskEdit \/ AskDelete

SpecPolicy == InitPolicy /\ [][NextPolicy]_vars

(***************************************************************************)
(* Claims about the git layer                                              *)
(***************************************************************************)
\* request r is inside a git operation: ensure_repo after its fetch,
\* commit_locally or push_to_remote after taking the lock
InGitOperation(r) ==
    pc[r] \in {"er_check", "er_sync", "cl_stage", "cl_commit",
               "pr_count", "pr_push", "pr_pull", "pr_retry"}

\* C1: at most one git mutation (ensure_repo, commit_locally, push_to_remote)
\* is in progress at a time, whichever requests issue them.
C1_OneGitMutationAtATime ==
    \A r \in Req, q \in Req : r # q => ~(InGitOperation(r) /\ InGitOperation(q))

\* C3: every commit commit_locally has returned is contained in the remote
\* branch or still in the local branch history (possibly rebased).
C3_NoLocalWorkLost ==
    \A id \in returned : id \in Ids(remote) \/ id \in Ids(mirror.branch)

\* request r's push_to_remote call returns or raises in this step
PushCompletes(r) ==
    /\ pc[r] \in {"pr_count", "pr_push", "pr_pull", "pr_retry"}
    /\ pc'[r] = "idle"

\* a push_to_remote call that finds no local commit missing from the remote
\* returns 0 without a network push
PushNothingToDo ==
    \A r \in Req :
        (pc[r] = "pr_count" /\ pc'[r] # "pr_count" /\ Delivered(mirror, remote))
            => (pc'[r] = "idle" /\ loc'[r].ret = 0 /\ ~loc'[r].raised
                /\ loc'[r].pushes = 0 /\ remote' = remote)

\* C9 as stated: a call made when nothing is missing from the remote returns 0
\* without a network push, and of any two calls in a row with no
\* commit_locally in between the second returns 0 and pushes nothing.
C9_PushIdempotentAlways ==
    [][/\ PushNothingToDo
       /\ \A r \in Req :
            (PushCompletes(r) /\ pushlog.done >= 1 /\ ~pushlog.commitSince)
                => (loc'[r].ret = 0 /\ loc'[r].pushes = 0)]_vars

\* C9 amended: a call made when nothing is missing from the remote returns 0
\* without a network push, and after a call that left every local commit on
\* the remote branch the next call, with no commit_locally in between,
\* returns 0 and pushes nothing.
C9_PushIdempotent ==
    [][/\ PushNothingToDo
       /\ \A r \in Req :
            (PushCompletes(r) /\ pushlog.done >= 1 /\ pushlog.delivered
                /\ ~pushlog.commitSince)
                => (loc'[r].ret = 0 /\ loc'[r].pushes = 0 /\ remote' = remote)]_vars

\* a second push_to_remote call returned 0 after the first delivered a commit
C9_Witness ==
    /\ pushlog.done >= 2 /\ pushlog.delivered /\ ~pushlog.commitSince
    /\ returned # {} /\ returned \subseteq Ids(remote)
    /\ \E r \in Req : pc[r] = "idle" /\ loc[r].ret = 0 /\ loc[r].pushes = 0

\* C10: when the remote rejects the push because it has new commits,
\* push_to_remote does exactly one pull --rebase and exactly one push retry,
\* and if it raises the local commits are still on the local branch.
C10_RejectedPushRetriesOnce ==
    [][\A r \in Req :
        (PushCompletes(r) /\ loc'[r].rejected)
            => /\ loc'[r].pulls = 1
               /\ loc'[r].pushes = 2
               /\ loc'[r].raised => Ids(mirror.branch) \subseteq Ids(mirror'.branch)]_vars

\* h1 is an initial segment of h2
StartsWith(h2, h1) == Len(h1) <= Len(h2) /\ SubSeq(h2, 1, Len(h1)) = h1

\* request r's ensure_repo call takes its rebase-or-reset step
Syncs(r) == pc[r] = "er_sync" /\ pc'[r] # "er_sync"

\* C11: when ensure_repo found local commits ahead of the remote and the
\* fetched remote commits touch none of their files, every one of those local
\* commits is still on the local branch, on top of the fetched remote tip,
\* after ensure_repo's rebase-or-reset step, whatever the working tree holds.
C11_RebasePreserve ==
    [][\A r \in Req :
        (Syncs(r) /\ loc[r].ahead /\ AheadOf(mirror) # <<>> /\ Upstream(mirror) # <<>>
            /\ ~Conflict(AheadOf(mirror), Upstream(mirror)))
            => /\ Ids(AheadOf(mirror)) \subseteq Ids(mirror'.branch)
               /\ StartsWith(mirror'.branch, mirror.origin)]_vars

\* request r's ensure_repo call raises at the checkout that follows the fetch
CheckoutRaises(r) == pc[r] = "er_fetch" /\ pc'[r] = "idle" /\ loc'[r].why = "checkout"

\* m holds local commits that change a file the fetched remote commits change
Diverged(m) == Conflict(AheadOf(m), Upstream(m))

\* C12: an ensure_repo call that has fetched remote commits conflicting with
\* the unpushed local commits ends with the local branch exactly at the
\* fetched remote tip and with no rebase in progress in the clone.
C12_ConflictFallback ==
    [][\A r \in Req :
        /\ (Syncs(r) /\ Diverged(mirror))
                => (mirror'.branch = mirror'.origin /\ ~mirror'.rebasing)
        /\ (CheckoutRaises(r) /\ Diverged(mirror'))
                => (mirror'.branch = mirror'.origin /\ ~mirror'.rebasing)]_vars

\* request r's ensure_repo call ends on a failed clone or fetch
TransportRaises(r) == pc[r] = "er_fetch" /\ pc'[r] = "idle" /\ loc'[r].why = "transport"

\* C13: when the clone or the fetch of an ensure_repo call fails, the call
\* raises to its caller without going on to the handler's file operations,
\* and the clone (branch head, remote-tracking ref, index, working tree) is
\* exactly what it was before the call.
C13_TransportFailureLeavesMirror ==
    [][\A r \in Req :
        TransportRaises(r)
            => /\ loc'[r].raised
               /\ mirror'.branch = mirror.branch
               /\ mirror'.wt = mirror.wt
               /\ mirror' = mirror]_vars

\* an ensure_repo call has raised on a failed fetch in a clone that holds
\* unpushed local commits, which a reset would have dropped
C13_Witness ==
    \E r \in Req :
        /\ pc[r] = "idle" /\ loc[r].raised /\ loc[r].why = "transport"
        /\ mirror.exists /\ AheadOf(mirror) # <<>>

\* request r is between the staging and the commit of commit_locally
Staging(r) == pc[r] \in {"cl_stage", "cl_commit"}

\* request r's commit_locally call returns or raises in this step
CommitCompletes(r) == pc[r] = "cl_commit" /\ pc'[r] = "idle"

\* request q's commit_locally call overlaps the one that now completes: q is
\* waiting for the lock, or q's call was the last to commit and q has not
\* started another request since
Overlapping(q) ==
    \/ pc[q] = "cl_wait"
    \/ /\ pc[q] = "idle" /\ loc[q].sha # <<0, 0>>
       /\ mirror.branch # <<>>
       /\ mirror.branch[Len(mirror.branch)].id = loc[q].sha[1]

Served(op) == last'.op = op /\ pushlog'.requests = pushlog.requests + 1

\* the user and the intent of the call served by the step
Caller == CHOOSE u \in Users : u.name = last'.user
Asked == last'.intent

\* the state the call leaves
After ==
    [m |-> mirror', c |-> cache', drafts |-> drafts', audit |-> audit', nextId |-> nextId',
     returned |-> returned']

\* no commit was made between state s and state t: no commit id was used and
\* the branch holds only commits it held before or commits of the remote
NoCommit(s, t, rem) ==
    /\ t.nextId = s.nextId
    /\ t.returned = s.returned
    /\ Ids(t.m.branch) \subseteq Ids(s.m.branch) \cup Ids(rem)

\* what the create handler was about to publish for the intent
Payload(u, intent) ==
    LET fm == intent.frontmatter
        slug == Get(fm, "slug", Str("")).v
    IN  [created_by |-> u.name, content_type |-> intent.content_type,
         title |-> IntentTitle(fm), slug |-> slug, frontmatter_json |-> fm,
         body_markdown |-> IF intent.body = <<>> THEN "" ELSE intent.body[1],
         image_data |-> intent.image,
         image_path |-> IF intent.image # NoImage
                        THEN get_image_path(intent.content_type, slug) ELSE NoPath]

\* ContentDraft row d is pending and carries the payload of the intent
PendingWith(d, u, intent) ==
    /\ d.status = "pending"
    /\ d.git_commit_sha = NoSha
    /\ \A f \in DOMAIN Payload(u, intent) : d[f] = Payload(u, intent)[f]

\* the commit with id 'id' is the tip of the branch of m and writes content at path
TipWrites(m, id, path, content) ==
    /\ m.branch # <<>>
    /\ m.branch[Len(m.branch)].id = id
    /\ path \in DOMAIN Tree(m.branch)
    /\ Tree(m.branch)[path] = content

\* between s and t the create made a local commit of the intent's markdown and
\* added one published ContentDraft row with the commit's sha
Published(s, t, u, intent) ==
    LET fm == intent.frontmatter
        slug == Get(fm, "slug", Str("")).v
        body == IF intent.body = <<>> THEN "" ELSE intent.body[1]
        d == t.drafts[Len(t.drafts)]
    IN  /\ t.nextId = s.nextId + 1
        /\ TipWrites(t.m, s.nextId, get_file_path(intent.content_type, slug),
                     generate_markdown(intent.content_type, fm, body).markdown)
        /\ Len(t.drafts) = Len(s.drafts) + 1
        /\ \A i \in 1..Len(s.drafts) : t.drafts[i] = s.drafts[i]
        /\ d.status = "published"
        /\ d.git_commit_sha = <<s.nextId, 0>>
        /\ d.created_by = u.name
        /\ d.frontmatter_json = fm

\* between s and t the create added exactly one pending ContentDraft row, with
\* the intent's payload, and made no commit
Pending(s, t, u, intent, rem) ==
    /\ Len(t.drafts) = Len(s.drafts) + 1
    /\ \A i \in 1..Len(s.drafts) : t.drafts[i] = s.drafts[i]
    /\ PendingWith(t.drafts[Len(t.drafts)], u, intent)
    /\ NoCommit(s, t, rem)

\* the create was not refused as duplicate or invalid, and its handler returned
Accepted == last'.result \notin {"duplicate", "invalid", "raised"}

C2_Step ==
    (Served("create") /\ last'.threw # "none" /\ last'.result # "raised")
        => /\ Len(drafts') = Len(drafts) + 1
           /\ \A i \in 1..Len(drafts) : drafts'[i] = drafts[i]
           /\ PendingWith(drafts'[Len(drafts')], Caller, Asked)
           /\ drafts'[Len(drafts')].frontmatter_json = Asked.frontmatter
           /\ drafts'[Len(drafts')].body_markdown = Asked.body[1]
           /\ drafts'[Len(drafts')].image_data = Asked.image

\* C2: when a step of the publish attempt of a create (ensure_repo, the file
\* writes, commit_locally, the published ContentDraft row) throws after the
\* validation succeeded and the handler returns, a pending ContentDraft row
\* has been added that carries the frontmatter, the body and the image of the
\* intent.  (A failing audit write is swallowed inside _log_audit and never
\* throws into the attempt.)
C2_NoLostWorkOnCreate == [][C2_Step]_vars

\* an editor's create of an article with an image met a failing commit and
\* left the pending row with the image
C2_Witness ==
    /\ last.op = "create" /\ last.result = "fallback" /\ last.threw = "commit"
    /\ last.user = "ed" /\ last.intent.image = "png"
    /\ drafts # <<>>
    /\ drafts[Len(drafts)].status = "pending"
    /\ drafts[Len(drafts)].created_by = "ed"
    /\ drafts[Len(drafts)].image_data = "png"
    /\ drafts[Len(drafts)].image_path = get_image_path("article", "b")

C4_Step ==
    (Served("create") /\ Asked.content_type = "article" /\ Accepted)
        => /\ Caller.role = "contributor"
                => last'.result = "pending" /\ Pending(State, After, Caller, Asked, remote)
           /\ (Caller.role = "editor" /\ last'.threw = "none")
                => last'.result = "published" /\ Published(State, After, Caller, Asked)

\* C4: a create of an article with valid frontmatter and an unused slug by a
\* contributor yields exactly one pending ContentDraft row and no commit; the
\* same create by an editor, its publish attempt not throwing, yields a
\* local commit and a published ContentDraft row carrying the commit's sha.
C4_PublishRightsGating == [][C4_Step]_vars

\* an editor's create of an article was committed and recorded as published
C4_Witness ==
    /\ last.op = "create" /\ last.result = "published" /\ last.user = "ed"
    /\ drafts # <<>>
    /\ drafts[Len(drafts)].created_by = "ed"
    /\ drafts[Len(drafts)].content_type = "article"
    /\ drafts[Len(drafts)].status = "published"
    /\ drafts[Len(drafts)].git_commit_sha = <<nextId - 1, 0>>
    /\ TipWrites(mirror, nextId - 1, get_file_path("article", "b"),
                 generate_markdown("article", last.intent.frontmatter, "One").markdown)

C5_Step ==
    (Served("create") /\ Caller.role = "group_lead" /\ Asked.content_type \in GroupTypes
        /\ Accepted)
        => LET group == Get(Asked.frontmatter, "localGroup", Str(""))
           IN  /\ group # Str(Caller.local_group)
                    => last'.result = "pending"
                       /\ Pending(State, After, Caller, Asked, remote)
               /\ (group = Str(Caller.local_group) /\ last'.threw = "none")
                    => last'.result = "published"
                       /\ Published(State, After, Caller, Asked)

\* C5: a group_lead's create of a local_event or local_news for another group
\* than the lead's own is accepted and yields a pending ContentDraft row and no
\* commit; for the lead's own group, the publish attempt not throwing, it
\* yields a local commit and a published ContentDraft row.
C5_GroupScoping == [][C5_Step]_vars

\* the Oxford lead's create of a London event left a pending row and no commit
C5_Witness ==
    /\ last.op = "create" /\ last.result = "pending" /\ last.user = "gl"
    /\ last.intent.content_type = "local_event"
    /\ drafts # <<>>
    /\ drafts[Len(drafts)].created_by = "gl"
    /\ drafts[Len(drafts)].content_type = "local_event"
    /\ drafts[Len(drafts)].frontmatter_json["localGroup"] = Str("london")
    /\ drafts[Len(drafts)].status = "pending"
    /\ nextId = 1 /\ returned = {}

(***************************************************************************)
(* Claims about uniqueness and the edit handler                            *)
(***************************************************************************)
C6_Step ==
    (Served("create")
        /\ Resolving(mirror.wt, Asked.content_type,
                     Get(Asked.frontmatter, "slug", Str("")).v) # {})
        => /\ last'.result = "duplicate"
           /\ NoCommit(State, After, remote)
           /\ drafts' = drafts
           /\ audit' = audit

\* C6: a create whose (content_type, slug) resolves to a record of the clone
\* fails with the duplicate-slug error; it makes no commit and adds no
\* ContentDraft and no ContentAuditLog row.
C6_DuplicateCreateFails == [][C6_Step]_vars

\* C7: for every content type and slug at most one content file of the clone
\* resolves to them, by its frontmatter slug or, lacking one, its file name.
C7_Uniqueness ==
    \A ct \in {"article", "local_event", "local_news"}, slug \in Slugs :
        Cardinality(Resolving(mirror.wt, ct, slug)) <= 1

C8_Step ==
    (Served("edit") /\ last'.result = "edited")
        => LET existing == read_content([m |-> mirror, c |-> cache], Asked.content_type,
                                        Asked.slug, remote, TRUE).r[1]
               written == parse_frontmatter(
                              mirror'.wt[get_file_path(Asked.content_type, Asked.slug)])
           IN  /\ written.frontmatter = Update(existing.frontmatter, Asked.frontmatter)
               /\ Asked.body = <<>> => written.body = existing.body

\* C8: the frontmatter an edit writes is the frontmatter of the existing record
\* with the supplied keys overriding and every other key kept; without a body
\* in the intent the body written is the prior body.
C8_EditMerge == [][C8_Step]_vars

(***************************************************************************)
(* Claims about the capability policy.                                     *)
(***************************************************************************)
\* the five rows of the capability table, for role r of a profile whose own
\* group is own, content type ct and target group g
TableCreate(r, ct) ==
    \/ r = "admin"
    \/ r = "editor" /\ ct \in {"article", "briefing", "news", "local_event",
                                "local_news", "ecosystem"}
    \/ r = "group_lead" /\ ct \in {"local_event", "local_news"}
    \/ r = "contributor" /\ ct \in {"article", "briefing", "news", "local_event",
                                     "local_news"}

TablePublish(r, own, ct, g) ==
    \/ r = "admin"
    \/ r = "editor" /\ TableCreate("editor", ct)
    \/ r = "group_lead" /\ ct \in {"local_event", "local_news"} /\ g = Str(own)

TableApprove(r, own, ct, g) ==
    \/ r \in {"admin", "editor"}
    \/ r = "group_lead" /\ ct \in {"local_event", "local_news"} /\ g = Str(own)

TableEdit(r, own, ct, g) ==
    \/ r \in {"admin", "editor"}
    \/ /\ r = "group_lead" /\ ct \in {"local_event", "local_news"}
       /\ (g \in {Str(""), NoneValue} \/ g = Str(own))

TableDelete(r) == r \in {"admin", "editor"}

\* C20: for every role, own group, content type and target group, each of
\* can_create, can_publish_directly, can_approve, can_edit and can_delete
\* answers what the capability table says.
C20_PolicyTable ==
    LET r == last.user.role
        own == last.user.local_group
        ct == last.intent.content_type
        g == last.intent.local_group
    IN  /\ last.op = "can_create" => (last.result <=> TableCreate(r, ct))
        /\ last.op = "can_publish_directly" => (last.result <=> TablePublish(r, own, ct, g))
        /\ last.op = "can_approve" => (last.result <=> TableApprove(r, own, ct, g))
        /\ last.op = "can_edit" => (last.result <=> TableEdit(r, own, ct, g))
        /\ last.op = "can_delete" => (last.result <=> TableDelete(r))

\* a group lead has been allowed to edit a local event with no group given
C20_Witness ==
    /\ last.op = "can_edit" /\ last.result = TRUE
    /\ last.user.role = "group_lead" /\ last.intent.content_type = "local_event"
    /\ last.intent.local_group = NoneValue

(***************************************************************************)
(* Claims about the review of drafts.  They are stated of every step that  *)
(* serves the call: the row reviewed is drafts[Asked.draft] before the     *)
(* step, the reviewer is Caller.                                           *)
(***************************************************************************)
\* the ContentDraft row the call is about, before and after the call
Reviewed == drafts[Asked.draft]
ReviewedAfter == drafts'[Asked.draft]

\* the group the row is tagged with: frontmatter_json.get('localGroup', '')
GroupOf(row) == Get(row.frontmatter_json, "localGroup", Str(""))

\* the capability table lets reviewer u approve row
MayApprove(u, row) == TableApprove(u.role, u.local_group, row.content_type, GroupOf(row))

\* re-validation of the row's current frontmatter and body fails
Invalid(row) ==
    generate_markdown(row.content_type, row.frontmatter_json, row.body_markdown).errors # {}

\* the call changed nothing but the record of the call itself
NothingChanged ==
    /\ drafts' = drafts /\ mirror' = mirror /\ remote' = remote /\ audit' = audit
    /\ nextId' = nextId /\ returned' = returned /\ cache' = cache

\* C15: a step changes the status of a ContentDraft row only from pending to
\* approved or from pending to rejected; a new row is pending or published;
\* a row whose status is approved, rejected or published keeps it, however
\* concurrent approve and reject requests interleave; and no step changes a
\* row's content_type or slug.
C15_Step ==
    /\ Len(drafts') >= Len(drafts)
    /\ \A i \in 1..Len(drafts) :
            /\ drafts'[i].content_type = drafts[i].content_type
            /\ drafts'[i].slug = drafts[i].slug
            /\ drafts'[i].status # drafts[i].status
                    => /\ drafts[i].status = "pending"
                       /\ drafts'[i].status \in {"approved", "rejected"}
    /\ \A i \in (Len(drafts) + 1)..Len(drafts') :
            drafts'[i].status \in {"pending", "published"}

C15_DraftLifecycle == [][C15_Step]_vars

\* C16: an approve of a pending draft whose reviewer lacks the approve
\* capability for the draft's content type and group, or whose current
\* frontmatter and body fail validation, changes nothing: the draft is still
\* pending without reviewer or commit id, no file is written, no commit made.
C16_Step ==
    (Served("approve") /\ Reviewed.status = "pending"
        /\ (~MayApprove(Caller, Reviewed) \/ Invalid(Reviewed)))
        => /\ last'.result \in {"denied", "invalid"}
           /\ NothingChanged
           /\ ReviewedAfter.status = "pending"
           /\ ReviewedAfter.reviewer = ""
           /\ ReviewedAfter.git_commit_sha = NoSha

C16_ApproveAborts == [][C16_Step]_vars

\* an approve was refused for lack of capability, and one for a validation
\* error, each leaving a pending draft
C16_Witness ==
    /\ last.op = "approve" /\ last.result = "invalid"
    /\ last.user = "ed"
    /\ drafts[last.intent.draft].status = "pending"

C16_WitnessDenied ==
    /\ last.op = "approve" /\ last.result = "denied"
    /\ last.user = "gl"
    /\ drafts[last.intent.draft].status = "pending"
    /\ drafts[last.intent.draft].content_type = "local_event"

\* C17: an approve that succeeds has written the draft's markdown (and the
\* attached image) into the clone, has made one commit whose tree holds
\* them, and has set the row to approved with the reviewer, the review time
\* and that commit's id; and a row becomes approved in an approve call only
\* together with a commit made by that call.
C17_Step ==
    LET row == Reviewed
        path == get_file_path(row.content_type, row.slug)
        hasImage == row.image_data # NoImage /\ row.image_path # NoPath
        Wrote(markdown) ==
            /\ path \in DOMAIN mirror'.wt /\ mirror'.wt[path] = markdown
            /\ TipWrites(mirror', nextId, path, markdown)
            /\ hasImage => /\ row.image_path \in DOMAIN mirror'.wt
                           /\ mirror'.wt[row.image_path] = row.image_data
                           /\ TipWrites(mirror', nextId, row.image_path, row.image_data)
    IN  /\ (Served("approve") /\ last'.result = "approved")
            => /\ row.status = "pending"
               /\ Wrote(generate_markdown(row.content_type, row.frontmatter_json,
                                           row.body_markdown).markdown)
               /\ nextId' = nextId + 1
               /\ nextId \notin Ids(mirror.branch)
               /\ returned' = returned \cup {nextId}
               /\ ReviewedAfter = [row EXCEPT !.status = "approved",
                                              !.reviewer = last'.user,
                                              !.reviewed_at = Now,
                                              !.git_commit_sha = <<nextId, 0>>]
               /\ \A i \in 1..Len(drafts) : i # Asked.draft => drafts'[i] = drafts[i]
        /\ (Served("approve") /\ ReviewedAfter.status = "approved" /\ row.status # "approved")
            => /\ last'.result = "approved"
               /\ ReviewedAfter.git_commit_sha[1] = nextId
               /\ nextId \in Ids(mirror'.branch) \ Ids(mirror.branch)

C17_ApprovePublishes == [][C17_Step]_vars

\* a draft with an image has been approved and committed
C17_Witness ==
    /\ last.op = "approve" /\ last.result = "approved"
    /\ LET row == drafts[last.intent.draft]
       IN  /\ row.status = "approved" /\ row.image_data # NoImage
           /\ row.git_commit_sha[1] \in Ids(mirror.branch)
           /\ row.image_path \in DOMAIN Tree(mirror.branch)

\* C18: a reject of a pending draft by a reviewer with the approve capability
\* for it, when it returns, has set the row to rejected with the reviewer and
\* the feedback; the clone (working tree, index, local history) and the
\* remote are what they were.
C18_Step ==
    (Served("reject") /\ Reviewed.status = "pending" /\ MayApprove(Caller, Reviewed))
        => /\ last'.result \in {"rejected", "raised"}
           /\ last'.result = "rejected"
                => ReviewedAfter = [Reviewed EXCEPT !.status = "rejected",
                                                    !.reviewer = last'.user,
                                                    !.reviewed_at = Now,
                                                    !.review_feedback = Asked.feedback]
           /\ \A i \in 1..Len(drafts) : i # Asked.draft => drafts'[i] = drafts[i]
           /\ mirror' = mirror /\ remote' = remote
           /\ nextId' = nextId /\ returned' = returned

C18_RejectStampsOnly == [][C18_Step]_vars

\* a draft has been rejected with feedback while the clone holds a file
\* written by a publish that failed
C18_Witness ==
    /\ last.op = "reject" /\ last.result = "rejected"
    /\ drafts[last.intent.draft].status = "rejected"
    /\ drafts[last.intent.draft].review_feedback = "shorter"
    /\ drafts[last.intent.draft].reviewer = "gl"

\* C19: pending_list and review_changes show a group lead exactly the pending
\* drafts of type local_event or local_news tagged with the lead's own group
\* (and do not refuse the lead), show an editor every pending draft, and show
\* a contributor none.
C19_Step ==
    LET pending == {i \in 1..Len(drafts) : drafts[i].status = "pending"}
        own == {i \in pending :
                    /\ drafts[i].content_type \in {"local_event", "local_news"}
                    /\ GroupOf(drafts[i]) = Str(Caller.local_group)}
    IN  (Served("pending_list") \/ Served("review_changes"))
            => CASE Caller.role = "group_lead" ->
                        ~last'.result.forbidden /\ last'.result.shown = own
                 [] Caller.role \in {"admin", "editor"} ->
                        ~last'.result.forbidden /\ last'.result.shown = pending
                 [] OTHER -> last'.result.shown = {}

C19_PendingListScoped == [][C19_Step]_vars

(***************************************************************************)
(* Claims about the audit log, the cache and the frame of the handlers     *)
(***************************************************************************)
\* the commits the served call added to the branch
NewCommits == {mirror'.branch[i] : i \in {j \in 1..Len(mirror'.branch) :
                                            mirror'.branch[j].id >= nextId /\
                                            mirror'.branch[j].id < BaseId}}

\* the ContentAuditLog rows the served call added
NewAudit == {audit'[i] : i \in (Len(audit) + 1)..Len(audit')}

\* a delete was served through the dispatcher, the browser or the bulk view
DeleteServed ==
    \/ Served("delete")
    \/ Served("delete_content")
    \/ Served("bulk_action") /\ Asked.action = "delete"

\* C21: on every delete path an AuditEntry(delete) is created only if the
\* delete removed the target file from the mirror: every delete row added by
\* a served delete comes with a new commit that removes the file of the
\* row's (content_type, slug), and a call that removed nothing adds no commit
C21_Step ==
    DeleteServed =>
        /\ \A e \in NewAudit :
              e.action = "delete" =>
                 \E c \in NewCommits : get_file_path(e.content_type, e.slug) \in c.del
        /\ \A c \in NewCommits : c.del # {}

C21_DeleteAuditOnlyIfRemoved == [][C21_Step]_vars

\* a create, edit, delete or approval was served and succeeded
MutationSucceeded ==
    \/ Served("create") /\ last'.result = "published"
    \/ Served("edit") /\ last'.result = "edited"
    \/ Served("delete") /\ last'.result = "deleted"
    \/ Served("approve") /\ last'.result = "approved"

\* C22: every successful mutation (direct publish on create, edit, delete,
\* draft approval) leaves the content cache empty when the request completes,
\* so no later list or read is answered from an entry computed before it
C22_Step == MutationSucceeded => cache' = EmptyCache

C22_MutationInvalidatesCache == [][C22_Step]_vars

\* C23: a served read or list leaves the clone (branch, commits not yet
\* pushed, working tree), the remote, the ContentDraft rows and the audit log
\* as they were
C23_Step ==
    (Served("read") \/ Served("list")) =>
        /\ mirror' = mirror
        /\ remote' = remote
        /\ drafts' = drafts
        /\ audit' = audit

C23_ReadListFrame == [][C23_Step]_vars

\* a handler or view that commits content was served
CommitterServed ==
    \/ Served("create") \/ Served("edit") \/ Served("delete") \/ Served("approve")
    \/ Served("quick_edit") \/ Served("toggle_featured") \/ Served("delete_content")
    \/ Served("bulk_action")

\* C24: every local commit a served create, edit, delete or approval makes
\* (quick edit, featured toggle and bulk changes included) comes with a new
\* ContentAuditLog row that carries the commit's id and names a
\* (content_type, slug) whose file the commit touches
C24_Step ==
    CommitterServed =>
        \A c \in NewCommits :
            \E e \in NewAudit :
                /\ e.git_commit_sha = <<c.id, c.gen>>
                /\ Touched(c) \subseteq {get_file_path(e.content_type, e.slug)}

C24_CommitsAudited == [][C24_Step]_vars

\* C25: the audit log is append-only: a step never removes a ContentAuditLog
\* row and never changes a field of a row that exists
C25_Step ==
    /\ Len(audit') >= Len(audit)
    /\ \A i \in 1..Len(audit) : audit'[i] = audit[i]

C25_AuditAppendOnly == [][C25_Step]_vars

\* a create, edit or delete intent was served and failed with a validation
\* error, a permission denial or a not-found result
IntentRefused ==
    \/ Served("create") /\ last'.result \in {"denied", "invalid"}
    \/ Served("edit") /\ last'.result \in {"denied", "notfound", "invalid"}
    \/ Served("delete") /\ last'.result \in {"denied", "notfound", "absent"}

\* C26: a create, edit or delete intent that fails with a validation error, a
\* permission denial or a not-found result performs no mutation: the working
\* tree of the clone holds the same files with the same content, the branch
\* holds the same commits, and no ContentDraft or ContentAuditLog row is added
C26_Step ==
    IntentRefused =>
        /\ mirror'.wt = mirror.wt
        /\ mirror'.branch = mirror.branch
        /\ nextId' = nextId
        /\ drafts' = drafts
        /\ audit' = audit

C26_RefusedIntentNoMutation == [][C26_Step]_vars

(***************************************************************************)
(* Claims about the view send_message and the git lock                     *)
(***************************************************************************)
\* request r is inside the with-block of commit_locally or push_to_remote
InLockedBlock(r) == pc[r] \in {"cl_stage", "cl_commit", "pr_count", "pr_push", "pr_pull", "pr_retry"}

\* request r is waiting for an answer of the advisory service
InAdvisoryCall(r) == last[r].phase \in {"claude", "reclaude"}

\* the lock is held by a request only inside one of the two with-blocks, so
\* not after the call returned or raised and not during an advisory call
LockOnlyInBlock ==
    \A r \in Req :
        /\ git_lock = r => InLockedBlock(r)
        /\ InAdvisoryCall(r) => git_lock # r

ChainBounded ==
    \A r \in Req :
        /\ last[r].calls <= 2
        /\ Len(last[r].acts) <= 2
        /\ Len(last[r].acts) = 2 =>
              <<last[r].acts[1], last[r].acts[2]>> \in {<<"scrape", "create">>,
                                                        <<"read", "edit">>}

\* C28: action chaining terminates: for one inbound message, whatever the
\* advisory service replies, at most one initial action and at most one
\* follow-up action are dispatched (after a scrape only a create, after a
\* read only an edit, after a list none), the advisory service is called at
\* most twice, and the view ends (with its response or, when the second
\* advisory call raises, with the server's error response)
C28_ChainTerminates ==
    /\ []ChainBounded
    /\ \A r \in Req : (last[r].phase # "none") ~> (last[r].phase = "none")

\* a message ended after a read, a second advisory call and the edit it asked for
C28_Witness ==
    \E r \in Req :
        /\ last[r].phase = "none"
        /\ last[r].acts = <<"read", "edit">>
        /\ last[r].calls = 2
        /\ last[r].out = "response"
        /\ returned # {}

(***************************************************************************)
(* Claims about the edit handlers                                          *)
(***************************************************************************)
\* the localGroup stored in the content file of (ct, slug) in clone m
StoredGroup(m, ct, slug) ==
    Get(parse_frontmatter(m.wt[get_file_path(ct, slug)]).frontmatter, "localGroup", Str(""))

\* the served edit is by a group lead, on an existing local_event or
\* local_news whose stored localGroup is another group
ForeignGroupEdit ==
    /\ Served("edit") \/ Served("quick_edit")
    /\ Caller.role = "group_lead"
    /\ Asked.content_type \in GroupTypes
    /\ mirror.exists
    /\ FileExists(mirror, get_file_path(Asked.content_type, Asked.slug))
    /\ Truthy(StoredGroup(mirror, Asked.content_type, Asked.slug))
    /\ StoredGroup(mirror, Asked.content_type, Asked.slug) # Str(Caller.local_group)

\* C29: an edit by a group lead of an existing local_event or local_news
\* whose stored localGroup is a different group is denied and writes nothing,
\* whether or not the intent supplies a localGroup
C29_Step ==
    ForeignGroupEdit =>
        /\ last'.result = "denied"
        /\ mirror' = mirror
        /\ nextId' = nextId

C29_EditGroupScoped == [][C29_Step]_vars

\* the served edit passed validation and its write-and-commit raised
EditPublishFailed ==
    /\ Served("edit")
    /\ last'.result = "error"
    /\ last'.threw \in {"ensure", "write", "commit"}

\* C30: whenever the write-and-commit of an edit fails after the merged
\* record passed validation, the handler returns with a new pending
\* ContentDraft row of the author for the edited (content_type, slug) that
\* carries the merged frontmatter (the supplied keys among them) and the body
C30_Step ==
    EditPublishFailed =>
        /\ Len(drafts') = Len(drafts) + 1
        /\ LET d == drafts'[Len(drafts')]
           IN  /\ d.status = "pending"
               /\ d.created_by = Caller.name
               /\ d.content_type = Asked.content_type
               /\ d.slug = Asked.slug
               /\ \A k \in DOMAIN Asked.frontmatter : d.frontmatter_json[k] = Asked.frontmatter[k]
               /\ Asked.body # <<>> => d.body_markdown = Asked.body[1]

C30_EditFallbackDraft == [][C30_Step]_vars

\* request r leaves ensure_repo by its return statement in this step
EnsureReturns(r) ==
    /\ pc[r] \in {"er_fetch", "er_sync"}
    /\ pc'[r] \notin {"er_fetch", "er_check", "er_sync"}
    /\ ~loc'[r].raised

\* C31: when ensure_repo returns from a state without a clone, the clone is
\* a clone of the remote branch (branch, remote-tracking ref, index and
\* working tree at the remote's tip); when it returns after finding the
\* branch not ahead, the local branch head is the remote-tracking ref as
\* fetched, which is a tip the remote branch has had, and the index is that
\* commit's tree.
C31_Step ==
    \A r \in Req :
        /\ (EnsureReturns(r) /\ ~mirror.exists) =>
                /\ mirror'.exists
                /\ mirror'.branch = remote
                /\ mirror'.origin = remote
                /\ mirror'.idx = Tree(remote)
                /\ mirror'.wt = Tree(remote)
                /\ ~mirror'.rebasing
        /\ (EnsureReturns(r) /\ pc[r] = "er_sync" /\ ~loc[r].ahead) =>
                /\ mirror'.branch = mirror'.origin
                /\ mirror'.origin = mirror.origin
                /\ StartsWith(remote', mirror'.branch)
                /\ mirror'.idx = Tree(mirror'.branch)
                /\ AheadOf(mirror') = <<>>
                /\ ~mirror'.rebasing

PushReportsCount(r) ==
    /\ PushCompletes(r)
    /\ ~loc'[r].raised
    /\ loc'[r].ret > 0

\* C32: when push_to_remote returns a count n > 0 without raising, the n
\* local commits that were ahead of the remote branch are on the remote
\* branch and no local commit is missing from it (a push the remote rejected
\* is not reported as a push of n commits).
C32_Step ==
    \A r \in Req :
        PushReportsCount(r) =>
            /\ Ids(AheadOf(mirror')) = {}
            /\ Ids(mirror'.branch) \subseteq Ids(remote')
            /\ Ids(AheadOf(mirror)) \subseteq Ids(remote')
            /\ Cardinality(Ids(AheadOf(mirror))) = loc'[r].ret

C32_PushReportsDelivered == [][C32_Step]_vars

\* C33: in every reachable state, the messages of one user that
\* _check_rate_limit has let through since the user's last quiet hour are at
\* most CHAT_RATE_LIMIT, whatever requests run concurrently and whatever
\* content is changed meanwhile.
C33_RateLimitHolds ==
    \A n \in DOMAIN pushlog.admitted : pushlog.admitted[n] <= CHAT_RATE_LIMIT

\* the served create wrote its content file and its publish attempt raised
\* before a commit was made, so the handler fell back to a pending row
CreateFailedAfterWrite ==
    /\ Served("create")
    /\ last'.result = "fallback"
    /\ last'.threw \in {"image", "commit"}

\* C34: when the publish attempt of a create fails after the content file
\* was written and before a commit was made, the (content_type, slug) of the
\* create does not resolve to content in the clone afterwards, and the same
\* create sent again is not rejected as a duplicate slug.
C34_Step ==
    CreateFailedAfterWrite =>
        LET slug == Get(Asked.frontmatter, "slug", Str("")).v
            view == [m |-> mirror', c |-> cache']
        IN  /\ ~check_slug_exists(view, Asked.content_type, slug, remote', TRUE).r
            /\ handle_content_action(After, remote', Caller, Asked, "none").result
                    # "duplicate"

C34_FailedPublishLeavesNothing == [][C34_Step]_vars

\* request r's commit_locally returns a commit id in this step, so that its
\* handler reports success
CommitReturns(r) ==
    /\ pc[r] = "cl_commit"
    /\ pc'[r] = "idle"
    /\ ~loc'[r].raised

\* C35: when a handler's commit_locally returns a commit id, that commit is
\* the tip of the local branch, its tree holds the content the request wrote
\* at the request's path (or lacks the file the request removed), and it
\* changes no other path, whatever another request's ensure_repo did between
\* the request's write and its commit.
C35_Step ==
    \A r \in Req :
        CommitReturns(r) =>
            LET c == mirror'.branch[Len(mirror'.branch)]
                t == Tree(mirror'.branch)
                p == loc[r].path
            IN  /\ c.id = loc'[r].sha[1]
                /\ IF loc[r].kind = "write"
                   THEN p \in DOMAIN t /\ t[p] = loc[r].val
                   ELSE p \notin DOMAIN t
                /\ Touched(c) \subseteq {p}

C35_WriteThenCommitAtomic == [][C35_Step]_vars

\* a handler call of a contributor is served in this step
ContributorServed ==
    /\ pushlog'.requests = pushlog.requests + 1
    /\ last'.user # ""
    /\ Caller.role = "contributor"

\* C36: a handler call served for a contributor creates no local commit,
\* writes and deletes no file of the clone's working tree and leaves the
\* remote branch as it is.
C36_Step ==
    ContributorServed =>
        /\ nextId' = nextId
        /\ returned' = returned
        /\ mirror'.wt = mirror.wt
        /\ remote' = remote

C36_ContributorChangesNothing == [][C36_Step]_vars

\* the commit ids the database holds: of published and approved ContentDraft
\* rows and of ContentAuditLog rows that name a commit
RecordedShas ==
    {drafts[i].git_commit_sha : i \in {j \in 1..Len(drafts) :
                                        drafts[j].status \in {"published", "approved"}}}
    \cup {audit[i].git_commit_sha : i \in {j \in 1..Len(audit) : audit[j].git_commit_sha # NoSha}}

\* C37: in every reachable state, every commit id stored in a published or
\* approved ContentDraft row or in a ContentAuditLog row is the id of a
\* commit on the local branch or on the remote branch.
C37_RecordedCommitsValid ==
    \A sha \in RecordedShas : sha \in Shas(mirror.branch) \cup Shas(remote)

\* the fields of a ContentDraft row agree with its status
DraftConsistent(d) ==
    /\ d.status \in {"pending", "rejected", "approved", "published"}
    /\ d.status = "pending" => d.reviewer = "" /\ d.git_commit_sha = NoSha
    /\ d.status = "rejected" => d.reviewer # "" /\ d.git_commit_sha = NoSha
    /\ d.status = "approved" => d.reviewer # "" /\ d.git_commit_sha # NoSha
    /\ d.status = "published" => d.reviewer = "" /\ d.git_commit_sha # NoSha

ApprovePublishes(r) ==
    /\ pc[r] = "rv_publish"
    /\ pc'[r] = "rv_save"

\* C39: an approve never replaces content: when it commits the file of its
\* row, the branch either had no file at that path or had one with the very
\* content the approve writes.
C39_Step ==
    \A r \in Req :
        ApprovePublishes(r) =>
            LET row == loc[r].row
                p == get_file_path(row.content_type, row.slug)
                before == Tree(mirror.branch)
            IN  (mirror.exists /\ p \in DOMAIN before)
                    => Tree(mirror'.branch)[p] = before[p]

C39_ApproveNoOverwrite == [][C39_Step]_vars

====
